---- MODULE Spec2Model ----
(***************************************************************************)
(* State-machine model of the persistent emulator session manager,         *)
(* tools/agent-android/src/agent_android/emulator.py (EmulatorManager).    *)
(*                                                                         *)
(* One caller drives the manager; every public method is a sequence of     *)
(* steps (one per externally visible effect: a file-system change, a       *)
(* registry change, a subprocess call), so that the states an operation    *)
(* passes through are states of the model.  The emulator processes and     *)
(* the devices they expose to adb are the environment.                     *)
(***************************************************************************)
EXTENDS Integers, Sequences, FiniteSets, TLC

\* ------------------------------------------------------------------ bounds
MaxProcs == 2       \* emulator processes spawned in one behaviour
MaxTime == 1        \* readings of the wall clock that differ
MaxElapsed == 4     \* seconds the boot watcher's clock is followed for

\* --------------------------------------------------------------- constants
PortLo == 5554      \* range(5554, 5682, 2)
PortHi == 5682
NoPort == 0         \* config.port is None / no entry in _ports
NoProc == 0         \* no entry in _processes

Sessions == {"s1", "s2"}
Callers == {"c1"}
\* config.port values a caller passes: None, a port, its console port, the
\* next control port
CfgPorts == {NoPort, PortLo, PortLo + 1, PortLo + 2}
\* config.port values a caller passes to restart
RestartPorts == {NoPort, PortLo}
\* from_template values: None, "base", another session
Templates == {"none", "base"} \cup Sessions
\* snapshot names a caller passes
SnapNames == {"n1"}
\* what aapt resolves an APK to: a package name, or nothing
Packages == {"p1", "p2"}

DefaultAvd == "base_pixel7_api34"
DefaultImage == "system-images;android-34;google_apis;x86_64"

VARIABLES
    sessionDir,     \* sessionDir[s]: sessions/<s>/ exists
    snapDir,        \* snapDir[s]: sessions/<s>/snapshots/ exists
    meta,           \* meta[s]: content of sessions/<s>/metadata.json
    userdata,       \* userdata[s]: sessions/<s>/userdata.img exists
    baseImage,      \* shared/base_userdata.img exists
    sdk,            \* what sdkmanager / avdmanager report as installed, and
                    \* the snapshots the AVD holds
    processes,      \* self._processes: session -> process handle
    ports,          \* self._ports: session -> port
    procs,          \* the OS processes spawned so far, by pid
    now,            \* the wall clock
    stopped,        \* stopped[s]: stop(s) has returned since s was last started
    frame           \* frame[c]: the call caller c is executing

vars == <<sessionDir, snapDir, meta, userdata, baseImage, sdk,
          processes, ports, procs, now, stopped, frame>>

disk == <<sessionDir, snapDir, meta, userdata, baseImage>>
registry == <<processes, ports>>

\* ---------------------------------------------------------------- helpers
Min(S) == CHOOSE x \in S : \A y \in S : x <= y

NoMeta ==
    [exists |-> FALSE, valid |-> FALSE, session_id |-> "", created_at |-> 0, last_accessed |-> 0,
     avd_name |-> "", system_image |-> "", installed_packages |-> <<>>,
     snapshots |-> <<>>, notes |-> ""]

SessionMetadata(s, created, accessed) ==
    [exists |-> TRUE, valid |-> TRUE, session_id |-> s, created_at |-> created,
     last_accessed |-> accessed, avd_name |-> DefaultAvd,
     system_image |-> DefaultImage, installed_packages |-> <<>>,
     snapshots |-> <<>>, notes |-> ""]

\* readings of datetime.now() at or after the current one
Clock == {t \in {now, now + 1} : t <= MaxTime}

IdleFrame ==
    [op |-> "none", pc |-> "idle", sid |-> "", cfgPort |-> NoPort, wait |-> FALSE,
     force |-> FALSE, tmpl |-> "none", metadata |-> NoMeta, port |-> NoPort,
     proc |-> NoProc, reg |-> FALSE, created |-> FALSE, adb |-> "none",
     killed |-> FALSE, after |-> "none", booted |-> FALSE,
     name |-> "", rc |-> "none", called |-> 0, running |-> FALSE,
     ret |-> "none", retPort |-> NoPort, retList |-> <<>>,
     exit |-> "none", msg |-> "none", elapsed |-> 0, timeout |-> 0,
     cmds |-> {}, save |-> TRUE]

\* time passes
Tick ==
    /\ now < MaxTime
    /\ now' = now + 1
    /\ UNCHANGED <<disk, sdk, processes, ports, procs, stopped, frame>>

\* the call has returned (or raised): its result has been seen by the caller
Return(c) ==
    /\ frame[c].pc = "done"
    /\ frame' = [frame EXCEPT ![c] = IdleFrame]
    /\ UNCHANGED <<sessionDir, snapDir, meta, userdata, baseImage, sdk,
                   processes, ports, procs, now, stopped>>

\* ------------------------------------------------------------ session store
GetSession(s) == IF sessionDir[s] THEN s ELSE "none"

LoadMetadata(s) == IF sessionDir[s] /\ meta[s].exists THEN meta[s] ELSE NoMeta

\* a metadata.json that is not valid metadata: json.load or
\* SessionMetadata(**data) raises
CorruptMeta == [NoMeta EXCEPT !.exists = TRUE]

\* _load_metadata raises instead of returning
LoadRaises(s) == sessionDir[s] /\ meta[s].exists /\ ~meta[s].valid

\* the keys of the JSON object in metadata.json
RequiredKeys == {"session_id", "created_at", "last_accessed", "avd_name", "system_image"}
OptionalKeys == {"installed_packages", "snapshots", "notes"}

\* asdict that loses the created_at field
JsonDumpWithoutCreatedAt(m) ==
    [session_id |-> m.session_id, last_accessed |-> m.last_accessed,
     avd_name |-> m.avd_name, system_image |-> m.system_image,
     installed_packages |-> m.installed_packages, snapshots |-> m.snapshots,
     notes |-> m.notes]

\* json.dump(asdict(metadata)): the JSON object with one key per dataclass field
JsonDump(m) ==
    [session_id |-> m.session_id, created_at |-> m.created_at,
     last_accessed |-> m.last_accessed, avd_name |-> m.avd_name,
     system_image |-> m.system_image, installed_packages |-> m.installed_packages,
     snapshots |-> m.snapshots, notes |-> m.notes]

\* SessionMetadata(**json.load(f)): every required key must be there and no
\* unknown one (TypeError otherwise); an optional key that is missing takes the
\* dataclass default
JsonLoad(doc) ==
    IF RequiredKeys \subseteq DOMAIN doc
          /\ DOMAIN doc \subseteq RequiredKeys \cup OptionalKeys
    THEN [exists |-> TRUE, valid |-> TRUE, session_id |-> doc.session_id,
          created_at |-> doc.created_at, last_accessed |-> doc.last_accessed,
          avd_name |-> doc.avd_name, system_image |-> doc.system_image,
          installed_packages |->
              IF "installed_packages" \in DOMAIN doc THEN doc.installed_packages
              ELSE <<>>,
          snapshots |-> IF "snapshots" \in DOMAIN doc THEN doc.snapshots ELSE <<>>,
          notes |-> IF "notes" \in DOMAIN doc THEN doc.notes ELSE ""]
    ELSE CorruptMeta

\* the metadata.json that _save_metadata(metadata) leaves, as _load_metadata
\* reads it
SaveMetadata(m) == JsonLoad(JsonDump(m))

\* the user-data image from_template names
TemplateImage(t) ==
    IF t = "base" THEN baseImage
    ELSE IF t \in Sessions THEN sessionDir[t] /\ userdata[t]
    ELSE FALSE

\* create_session that starts the new metadata from the template session's lists
DoCreateCloneLists(s, t, accessed) ==
    LET src == IF t \in Sessions /\ t # s THEN LoadMetadata(t) ELSE NoMeta IN
    /\ sessionDir' = [sessionDir EXCEPT ![s] = TRUE]
    /\ snapDir' = [snapDir EXCEPT ![s] = TRUE]
    /\ meta' = [meta EXCEPT ![s] =
                   SaveMetadata([SessionMetadata(s, now, accessed) EXCEPT
                                    !.installed_packages = src.installed_packages,
                                    !.snapshots = src.snapshots])]
    /\ userdata' = [userdata EXCEPT ![s] = (t # "none") /\ TemplateImage(t)]
    /\ now' = accessed
    /\ UNCHANGED baseImage

\* create_session past its existence check: the directory, snapshots/,
\* metadata.json and the optional copy of the template's user-data image
DoCreate(s, t, accessed) ==
    /\ sessionDir' = [sessionDir EXCEPT ![s] = TRUE]
    /\ snapDir' = [snapDir EXCEPT ![s] = TRUE]
    /\ meta' = [meta EXCEPT ![s] = SaveMetadata(SessionMetadata(s, now, accessed))]
    /\ userdata' = [userdata EXCEPT ![s] = (t # "none") /\ TemplateImage(t)]
    /\ now' = accessed
    /\ UNCHANGED baseImage

\* create_session that refuses a template whose user-data image is absent
CreateSessionTemplateRequired(c, s, t) ==
    LET f == [IdleFrame EXCEPT !.op = "create", !.sid = s, !.tmpl = t] IN
    /\ frame[c].pc = "idle"
    /\ IF sessionDir[s]
       THEN /\ frame' = [frame EXCEPT ![c] =
                            [f EXCEPT !.pc = "done", !.ret = "AlreadyExists"]]
            /\ UNCHANGED <<disk, now>>
       ELSE IF t # "none" /\ ~TemplateImage(t)
       THEN /\ frame' = [frame EXCEPT ![c] =
                            [f EXCEPT !.pc = "done", !.ret = "TemplateMissing"]]
            /\ UNCHANGED <<disk, now>>
       ELSE \E accessed \in Clock :
            /\ DoCreate(s, t, accessed)
            /\ frame' = [frame EXCEPT ![c] =
                            [f EXCEPT !.pc = "done", !.ret = "path", !.created = TRUE]]
    /\ UNCHANGED <<sdk, registry, procs, stopped>>

\* create_session with the existence check lost (mkdir(exist_ok=True))
CreateSessionExistOk(c, s, t) ==
    LET f == [IdleFrame EXCEPT !.op = "create", !.sid = s, !.tmpl = t] IN
    /\ frame[c].pc = "idle"
    /\ \E accessed \in Clock :
          /\ DoCreate(s, t, accessed)
          /\ frame' = [frame EXCEPT ![c] =
                          [f EXCEPT !.pc = "done", !.ret = "path", !.created = TRUE]]
    /\ UNCHANGED <<sdk, registry, procs, stopped>>

\* create_session(s, from_template=t), lines 241-273
CreateSession(c, s, t) ==
    LET f == [IdleFrame EXCEPT !.op = "create", !.sid = s, !.tmpl = t] IN
    /\ frame[c].pc = "idle"
    /\ IF sessionDir[s]
       THEN /\ frame' = [frame EXCEPT ![c] =
                            [f EXCEPT !.pc = "done", !.ret = "AlreadyExists"]]
            /\ UNCHANGED <<disk, now>>
       ELSE \E accessed \in Clock :
            /\ DoCreate(s, t, accessed)
            /\ frame' = [frame EXCEPT ![c] =
                            [f EXCEPT !.pc = "done", !.ret = "path", !.created = TRUE]]
    /\ UNCHANGED <<sdk, registry, procs, stopped>>

\* ------------------------------------------------- emulator processes, adb
Alive(p) == p \in 1..Len(procs) /\ procs[p].state # "exited"

Exited == [state |-> "exited", port |-> NoPort, bound |-> FALSE]

\* the ports an emulator started with -port q listens on: q and its console pair
Listens(q) == {q, q + 1}

\* ports some live emulator listens on
BusyPorts == UNION {Listens(procs[p].port) : p \in {q \in 1..Len(procs) : Alive(q) /\ procs[q].bound}}

\* the live emulator adb addresses as emulator-<port>
Device(port) ==
    {p \in 1..Len(procs) : Alive(p) /\ procs[p].bound /\ procs[p].port = port
                           /\ procs[p].state \in {"device", "booted"}}

\* adb devices lists emulator-<port> in the state "device"
DeviceReady(port) == Device(port) # {}

\* getprop sys.boot_completed of emulator-<port> reads "1"
BootCompleted(port) == \E p \in Device(port) : procs[p].state = "booted"

\* the emulator comes up: its adb device appears, then its boot completes
EmuAdvance(p) ==
    /\ Alive(p) /\ procs[p].bound
    /\ procs[p].state \in {"starting", "device"}
    /\ procs' = [procs EXCEPT ![p].state = IF @ = "starting" THEN "device" ELSE "booted"]
    /\ UNCHANGED <<disk, sdk, registry, now, frame, stopped>>

\* the emulator process exits on its own
Crash(p) ==
    /\ Alive(p)
    /\ procs' = [procs EXCEPT ![p] = Exited]
    /\ UNCHANGED <<disk, sdk, registry, now, frame, stopped>>

\* is_running, lines 496-502: registered and poll() is None
IsRunning(s) == processes[s] # NoProc /\ Alive(processes[s])

\* get_serial, lines 504-508: emulator-<port> of the _ports entry, if any
GetSerial(s) == ports[s]

\* ------------------------------------------------------------ port allocator
\* socket.bind on a probe socket: refused when the socket is already bound
\* (EINVAL) or the port is in use (EADDRINUSE)
Bind(alreadyBound, p) == ~alreadyBound /\ p \notin BusyPorts

\* one probe socket, bound to the port and then to its console port
ProbePort(p) == Bind(FALSE, p) /\ Bind(TRUE, p + 1)

UsedPorts == {ports[s] : s \in {x \in Sessions : ports[x] # NoPort}}

CandidatePorts == {p \in PortLo..(PortHi - 1) : (p - PortLo) % 2 = 0}

\* _find_available_port: the first candidate that passes, NoPort when it raises
FindAvailablePort ==
    LET free == {p \in CandidatePorts : p \notin UsedPorts /\ ProbePort(p)}
    IN IF free = {} THEN NoPort ELSE Min(free)

\* ------------------------------------------------------------------- stop
\* where control goes when stop returns r to the code that called it
AfterStop(f, r) ==
    CASE f.after = "return" -> [f EXCEPT !.pc = "done", !.ret = r]
      [] f.after = "raise_boot" -> [f EXCEPT !.pc = "done", !.ret = "BootTimeout"]
      [] f.after = "delete_rm" -> [f EXCEPT !.pc = "delete_rm"]
      [] f.after = "restart_start" -> [f EXCEPT !.pc = "restart_sleep"]

\* stop with the registry check lost
StopEntryNoCheck(f) ==
    [f EXCEPT !.reg = processes[f.sid] # NoProc, !.proc = processes[f.sid],
              !.port = ports[f.sid], !.pc = "stop_adb"]

\* stop, lines 458-464: an id not in _processes returns False; otherwise the
\* handle and the port are read
StopEntry(f) ==
    IF processes[f.sid] = NoProc
    THEN AfterStop([f EXCEPT !.reg = FALSE], "false")
    ELSE [f EXCEPT !.reg = TRUE, !.proc = processes[f.sid],
                   !.port = ports[f.sid], !.pc = "stop_adb"]

\* a call of stop(s) that finds s unregistered has returned at once
StopReturns(s) ==
    stopped' = IF processes[s] = NoProc THEN [stopped EXCEPT ![s] = TRUE] ELSE stopped

\* stop(s) called by the caller
Stop(c, s) ==
    /\ frame[c].pc = "idle"
    /\ frame' = [frame EXCEPT ![c] =
                    StopEntry([IdleFrame EXCEPT !.op = "stop", !.sid = s,
                                                !.after = "return"])]
    /\ StopReturns(s)
    /\ UNCHANGED <<disk, sdk, registry, procs, now>>

\* stop(s, save_snapshot=save) called by the caller; stop(s) is the call with
\* the default, True
StopWith(c, s, save) ==
    /\ frame[c].pc = "idle"
    /\ frame' = [frame EXCEPT ![c] =
                    StopEntry([IdleFrame EXCEPT !.op = "stop", !.sid = s,
                                                !.after = "return", !.save = save])]
    /\ StopReturns(s)
    /\ UNCHANGED <<disk, sdk, registry, procs, now>>

\* stop(s) called by start (line 437) or delete_session (line 304)
StopNested(c) ==
    /\ frame[c].pc = "stop"
    /\ frame' = [frame EXCEPT ![c] = StopEntry(frame[c])]
    /\ StopReturns(frame[c].sid)
    /\ UNCHANGED <<disk, sdk, registry, procs, now>>

\* stop that leaves the adb request out when save_snapshot is False
StopAdbOnlyToSave(c) ==
    LET f == frame[c] IN
    /\ f.pc = "stop_adb"
    /\ \E o \in {"ack", "fail", "timeout"} :
          /\ o = "ack" => DeviceReady(f.port)
          /\ procs' = IF o = "ack" /\ f.save
                      THEN [p \in 1..Len(procs) |->
                               IF p \in Device(f.port) THEN Exited ELSE procs[p]]
                      ELSE procs
          /\ frame' = [frame EXCEPT ![c].adb = IF f.save THEN o ELSE "none",
                                    ![c].pc = "stop_wait"]
    /\ UNCHANGED <<disk, sdk, registry, now, stopped>>

\* stop, lines 466-474: adb -s <serial> emu kill, 10 s; acknowledged only by
\* a device of that serial, which then exits
StopAdb(c) ==
    LET f == frame[c] IN
    /\ f.pc = "stop_adb"
    /\ \E o \in {"ack", "fail", "timeout"} :
          /\ o = "ack" => DeviceReady(f.port)
          /\ procs' = IF o = "ack"
                      THEN [p \in 1..Len(procs) |->
                               IF p \in Device(f.port) THEN Exited ELSE procs[p]]
                      ELSE procs
          /\ frame' = [frame EXCEPT ![c].adb = o, ![c].pc = "stop_wait"]
    /\ UNCHANGED <<disk, sdk, registry, now, stopped>>

\* stop that gives the process up when the wait times out
StopWaitGivesUp(c) ==
    LET f == frame[c] IN
    /\ f.pc = "stop_wait"
    /\ frame' = [frame EXCEPT ![c].pc = "stop_del"]
    /\ UNCHANGED <<disk, sdk, registry, procs, now, stopped>>

\* stop that sends the forced kill whatever the wait returned
StopWaitAlwaysKill(c) ==
    LET f == frame[c] IN
    /\ f.pc = "stop_wait"
    /\ frame' = [frame EXCEPT ![c].pc = "stop_kill"]
    /\ UNCHANGED <<disk, sdk, registry, procs, now, stopped>>

\* stop, lines 476-479: process.wait(timeout=30) returns, or times out with
\* the process still alive
StopWait(c) ==
    LET f == frame[c] IN
    /\ f.pc = "stop_wait"
    /\ frame' = [frame EXCEPT ![c].pc = IF Alive(f.proc) THEN "stop_kill" ELSE "stop_del"]
    /\ UNCHANGED <<disk, sdk, registry, procs, now, stopped>>

\* stop, lines 480-482: SIGKILL to the process group, then wait()
StopKill(c) ==
    LET f == frame[c] IN
    /\ f.pc = "stop_kill"
    /\ procs' = [procs EXCEPT ![f.proc] = Exited]
    /\ frame' = [frame EXCEPT ![c].killed = TRUE, ![c].pc = "stop_del"]
    /\ UNCHANGED <<disk, sdk, registry, now, stopped>>

\* stop that removes the session's metadata file with the registry entries
StopDelDropsMetadata(c) ==
    LET f == frame[c] IN
    /\ f.pc = "stop_del"
    /\ processes' = [processes EXCEPT ![f.sid] = NoProc]
    /\ ports' = [ports EXCEPT ![f.sid] = NoPort]
    /\ meta' = [meta EXCEPT ![f.sid] = NoMeta]
    /\ frame' = [frame EXCEPT ![c] = AfterStop(f, "true")]
    /\ stopped' = [stopped EXCEPT ![f.sid] = TRUE]
    /\ UNCHANGED <<sessionDir, snapDir, userdata, baseImage, sdk, procs, now>>

\* stop that returns after the forced kill without touching the registry
StopDelUnlessKilled(c) ==
    LET f == frame[c] IN
    /\ f.pc = "stop_del"
    /\ processes' = [processes EXCEPT ![f.sid] = IF f.killed THEN @ ELSE NoProc]
    /\ ports' = [ports EXCEPT ![f.sid] = IF f.killed THEN @ ELSE NoPort]
    /\ frame' = [frame EXCEPT ![c] = AfterStop(f, "true")]
    /\ stopped' = [stopped EXCEPT ![f.sid] = TRUE]
    /\ UNCHANGED <<disk, sdk, procs, now>>

\* stop, lines 484-488: both registry entries go, stop returns True
StopDel(c) ==
    LET f == frame[c] IN
    /\ f.pc = "stop_del"
    /\ processes' = [processes EXCEPT ![f.sid] = NoProc]
    /\ ports' = [ports EXCEPT ![f.sid] = NoPort]
    /\ frame' = [frame EXCEPT ![c] = AfterStop(f, "true")]
    /\ stopped' = [stopped EXCEPT ![f.sid] = TRUE]
    /\ UNCHANGED <<disk, sdk, procs, now>>

\* ------------------------------------------------------------------ start
\* the serial start returns is emulator-<port>: the port stands for it
\* start with the auto-create lost: an absent session is launched as it is
StartEntryNoCreate(c, f) ==
    /\ IF processes[f.sid] # NoProc
       THEN frame' = [frame EXCEPT ![c] =
                         [f EXCEPT !.pc = "done", !.ret = "serial",
                                   !.retPort = ports[f.sid]]]
       ELSE frame' = [frame EXCEPT ![c] =
                         [f EXCEPT !.pc = "start_avd",
                                   !.created = GetSession(f.sid) = "none",
                                   !.metadata = LoadMetadata(f.sid)]]
    /\ stopped' = [stopped EXCEPT ![f.sid] = FALSE]
    /\ UNCHANGED <<disk, now, sdk, registry, procs>>

\* start with the registry check lost: a registered session is launched again
StartEntryAlwaysLaunch(c, f) ==
    /\ IF GetSession(f.sid) = "none"
       THEN \E accessed \in Clock :
            /\ DoCreate(f.sid, "none", accessed)
            /\ frame' = [frame EXCEPT ![c] =
                            [f EXCEPT !.pc = "start_avd", !.created = TRUE,
                                      !.metadata = SessionMetadata(f.sid, now, accessed)]]
       ELSE /\ frame' = [frame EXCEPT ![c] =
                            [f EXCEPT !.pc = "start_avd",
                                      !.metadata = LoadMetadata(f.sid)]]
            /\ UNCHANGED <<disk, now>>
    /\ stopped' = [stopped EXCEPT ![f.sid] = FALSE]
    /\ UNCHANGED <<sdk, registry, procs>>

\* start, lines 354-365: an id in _processes returns its serial; an absent
\* session is created; the metadata is loaded
StartEntry(c, f) ==
    /\ IF processes[f.sid] # NoProc
       THEN /\ frame' = [frame EXCEPT ![c] =
                            [f EXCEPT !.pc = "done", !.ret = "serial",
                                      !.retPort = ports[f.sid]]]
            /\ UNCHANGED <<disk, now>>
       ELSE IF GetSession(f.sid) = "none"
       THEN \E accessed \in Clock :
            /\ DoCreate(f.sid, "none", accessed)
            /\ frame' = [frame EXCEPT ![c] =
                            [f EXCEPT !.pc = "start_avd", !.created = TRUE,
                                      !.metadata = SessionMetadata(f.sid, now, accessed)]]
       ELSE /\ frame' = [frame EXCEPT ![c] =
                            IF LoadRaises(f.sid)
                            THEN [f EXCEPT !.pc = "done", !.ret = "MetadataError"]
                            ELSE [f EXCEPT !.pc = "start_avd",
                                           !.metadata = LoadMetadata(f.sid)]]
            /\ UNCHANGED <<disk, now>>
    /\ stopped' = [stopped EXCEPT ![f.sid] = FALSE]
    /\ UNCHANGED <<sdk, registry, procs>>

\* start(s, config, wait_boot) called by the caller
Start(c, s, port, wait) ==
    /\ frame[c].pc = "idle"
    /\ Len(procs) < MaxProcs
    /\ StartEntry(c, [IdleFrame EXCEPT !.op = "start", !.sid = s, !.called = now,
                                       !.cfgPort = port, !.wait = wait])

\* create_base_avd, lines 161-201: the system image is installed and the AVD
\* created unless listed; a failed install or create raises
StartAvd(c) ==
    LET f == frame[c] IN
    /\ f.pc = "start_avd"
    /\ \E imageOk, avdOk \in BOOLEAN :
          LET image == sdk.image \/ imageOk
              avd == image /\ (sdk.avd \/ avdOk)
          IN /\ sdk.image => imageOk
             /\ (sdk.avd \/ ~image) => avdOk
             /\ sdk' = [sdk EXCEPT !.image = image, !.avd = sdk.avd \/ avd]
             /\ frame' = [frame EXCEPT ![c] =
                             IF avd THEN [f EXCEPT !.pc = "start_port"]
                             ELSE [f EXCEPT !.pc = "done", !.ret = "ProvisioningError"]]
    /\ UNCHANGED <<disk, registry, procs, now, stopped>>

\* create_base_avd that installs and creates without looking at the listings
CreateBaseAvdAlways(c) ==
    LET f == [IdleFrame EXCEPT !.op = "create_base_avd", !.cmds = {"install", "create"}]
    IN
    /\ frame[c].pc = "idle"
    /\ \E imageOk, avdOk \in BOOLEAN :
          LET image == sdk.image \/ imageOk
              avd == image /\ avdOk
          IN /\ ~image => avdOk
             /\ sdk' = [sdk EXCEPT !.image = image, !.avd = sdk.avd \/ avd]
             /\ frame' = [frame EXCEPT ![c] =
                             [f EXCEPT !.pc = "done",
                                       !.cmds = IF image THEN {"install", "create"}
                                                ELSE {"install"},
                                       !.ret = IF avd THEN "true"
                                               ELSE "ProvisioningError"]]
    /\ UNCHANGED <<disk, registry, procs, now, stopped>>

\* create_base_avd(config) called by the caller, lines 152-201, with
\* ensure_system_image, lines 122-150: sdkmanager installs the image unless it
\* is listed as installed; avdmanager creates the AVD unless it is listed; a
\* failed install or create raises.  cmds are the commands issued besides the
\* two listings
CreateBaseAvd(c) ==
    LET f == [IdleFrame EXCEPT !.op = "create_base_avd"] IN
    /\ frame[c].pc = "idle"
    /\ \E imageOk, avdOk \in BOOLEAN :
          LET image == sdk.image \/ imageOk
              avd == image /\ (sdk.avd \/ avdOk)
              cmds == (IF sdk.image THEN {} ELSE {"install"})
                          \cup (IF image /\ ~sdk.avd THEN {"create"} ELSE {})
          IN /\ sdk.image => imageOk
             /\ (sdk.avd \/ ~image) => avdOk
             /\ sdk' = [sdk EXCEPT !.image = image, !.avd = sdk.avd \/ avd]
             /\ frame' = [frame EXCEPT ![c] =
                             [f EXCEPT !.pc = "done", !.cmds = cmds,
                                       !.ret = IF avd THEN "true"
                                               ELSE "ProvisioningError"]]
    /\ UNCHANGED <<disk, registry, procs, now, stopped>>

\* start that enters the first candidate port in _ports before it raises
StartPortMarksPort(c) ==
    LET f == frame[c]
        port == IF f.cfgPort # NoPort THEN f.cfgPort ELSE FindAvailablePort
    IN
    /\ f.pc = "start_port"
    /\ IF port = NoPort
       THEN /\ frame' = [frame EXCEPT ![c].pc = "done", ![c].ret = "ResourceExhausted"]
            /\ ports' = [ports EXCEPT ![f.sid] = PortLo]
       ELSE /\ ports' = [ports EXCEPT ![f.sid] = port]
            /\ frame' = [frame EXCEPT ![c].port = port, ![c].pc = "start_popen"]
    /\ UNCHANGED <<disk, sdk, processes, procs, now, stopped>>

\* start, lines 370-372: config.port or the allocator's port, stored in _ports
StartPort(c) ==
    LET f == frame[c]
        port == IF f.cfgPort # NoPort THEN f.cfgPort ELSE FindAvailablePort
    IN
    /\ f.pc = "start_port"
    /\ IF port = NoPort
       THEN /\ frame' = [frame EXCEPT ![c].pc = "done", ![c].ret = "ResourceExhausted"]
            /\ UNCHANGED ports
       ELSE /\ ports' = [ports EXCEPT ![f.sid] = port]
            /\ frame' = [frame EXCEPT ![c].port = port, ![c].pc = "start_popen"]
    /\ UNCHANGED <<disk, sdk, processes, procs, now, stopped>>

\* a spawned emulator listens on its ports unless a live one holds them
Spawned(port) ==
    [state |-> "starting", port |-> port,
     bound |-> Listens(port) \cap BusyPorts = {}]

\* start that spawns the emulator and registers it only after the boot wait
StartPopenUnregistered(c) ==
    LET f == frame[c]
        pid == Len(procs) + 1
    IN
    /\ f.pc = "start_popen"
    /\ \/ /\ procs' = Append(procs, Spawned(f.port))
          /\ frame' = [frame EXCEPT ![c].proc = pid,
                          ![c].pc = IF f.wait THEN "wait_device" ELSE "start_meta"]
       \/ /\ frame' = [frame EXCEPT ![c].pc = "done", ![c].ret = "LaunchFailure"]
          /\ UNCHANGED procs
    /\ UNCHANGED <<disk, sdk, processes, ports, now, stopped>>

\* start, lines 423-430: Popen of the emulator binary, then _processes[id];
\* Popen raises when the binary cannot be spawned
StartPopen(c) ==
    LET f == frame[c]
        pid == Len(procs) + 1
    IN
    /\ f.pc = "start_popen"
    /\ \/ /\ procs' = Append(procs, Spawned(f.port))
          /\ processes' = [processes EXCEPT ![f.sid] = pid]
          /\ frame' = [frame EXCEPT ![c].proc = pid,
                          ![c].pc = IF f.wait THEN "wait_device" ELSE "start_meta"]
       \/ /\ frame' = [frame EXCEPT ![c].pc = "done", ![c].ret = "LaunchFailure"]
          /\ UNCHANGED <<processes, procs>>
    /\ UNCHANGED <<disk, sdk, ports, now, stopped>>

\* start that raises on a failed boot wait without calling stop
BootFailedNoStop(f) == [f EXCEPT !.pc = "done", !.ret = "BootTimeout"]

\* start, lines 436-438: the boot watcher returned False; stop, then raise
BootFailed(f) == [f EXCEPT !.pc = "stop", !.after = "raise_boot"]

\* _wait_for_boot, lines 729-742: poll adb devices until the serial is listed
\* as a device, or the deadline passes
WaitDevice(c) ==
    LET f == frame[c] IN
    /\ f.pc = "wait_device"
    /\ \/ /\ DeviceReady(f.port)
          /\ frame' = [frame EXCEPT ![c].pc = "wait_boot"]
       \/ frame' = [frame EXCEPT ![c] = BootFailed(f)]
    /\ UNCHANGED <<disk, sdk, registry, procs, now, stopped>>

\* _wait_for_boot, lines 745-755: poll sys.boot_completed until it reads 1,
\* or the deadline passes
WaitBoot(c) ==
    LET f == frame[c] IN
    /\ f.pc = "wait_boot"
    /\ \/ /\ BootCompleted(f.port)
          /\ frame' = [frame EXCEPT ![c].pc = "start_meta",
                                    ![c].booted = BootCompleted(f.port)]
       \/ frame' = [frame EXCEPT ![c] = BootFailed(f)]
    /\ UNCHANGED <<disk, sdk, registry, procs, now, stopped>>

\* ------------------------------------------- the boot watcher, with its clock
\* the timeout start passes to _wait_for_boot
Timeouts == {1, 3}

WatcherPcs == {"wfb_dev", "wfb_dev_poll", "wfb_dev_sleep",
               "wfb_boot", "wfb_boot_poll", "wfb_boot_sleep"}

\* _wait_for_boot, line 726: start = time.time(); elapsed is time.time() - start
WatchEnter(c) ==
    LET f == frame[c] IN
    /\ f.pc = "wait_device"
    /\ \E timeout \in Timeouts :
          frame' = [frame EXCEPT ![c].pc = "wfb_dev", ![c].elapsed = 0,
                                 ![c].timeout = timeout]
    /\ UNCHANGED <<disk, sdk, registry, procs, now, stopped>>

\* time passes while the watcher runs
WatchTick(c) ==
    LET f == frame[c] IN
    /\ f.pc \in WatcherPcs
    /\ f.elapsed < MaxElapsed
    /\ frame' = [frame EXCEPT ![c].elapsed = f.elapsed + 1]
    /\ UNCHANGED <<disk, sdk, registry, procs, now, stopped>>

\* the first loop that polls whatever the clock reads
WatchDevTestNoDeadline(c) ==
    LET f == frame[c] IN
    /\ f.pc = "wfb_dev"
    /\ frame' = [frame EXCEPT ![c].pc = "wfb_dev_poll"]
    /\ UNCHANGED <<disk, sdk, registry, procs, now, stopped>>

\* _wait_for_boot, lines 729 and 740-741: the first loop's condition; the
\* else branch returns False
WatchDevTest(c) ==
    LET f == frame[c] IN
    /\ f.pc = "wfb_dev"
    /\ frame' = [frame EXCEPT ![c] =
                    IF f.elapsed < f.timeout THEN [f EXCEPT !.pc = "wfb_dev_poll"]
                    ELSE BootFailed(f)]
    /\ UNCHANGED <<disk, sdk, registry, procs, now, stopped>>

\* _wait_for_boot, lines 730-738: adb devices; break when the serial is
\* listed as a device
WatchDevPoll(c) ==
    LET f == frame[c] IN
    /\ f.pc = "wfb_dev_poll"
    /\ frame' = [frame EXCEPT ![c].pc = IF DeviceReady(f.port) THEN "wfb_boot"
                                        ELSE "wfb_dev_sleep"]
    /\ UNCHANGED <<disk, sdk, registry, procs, now, stopped>>

\* _wait_for_boot, lines 739 and 753: time.sleep(2)
WatchSleep(c) ==
    LET f == frame[c] IN
    /\ f.pc \in {"wfb_dev_sleep", "wfb_boot_sleep"}
    /\ frame' = [frame EXCEPT ![c].elapsed = Min({f.elapsed + 2, MaxElapsed}),
                              ![c].pc = IF f.pc = "wfb_dev_sleep" THEN "wfb_dev"
                                        ELSE "wfb_boot"]
    /\ UNCHANGED <<disk, sdk, registry, procs, now, stopped>>

\* the second loop that polls whatever the clock reads
WatchBootTestNoDeadline(c) ==
    LET f == frame[c] IN
    /\ f.pc = "wfb_boot"
    /\ frame' = [frame EXCEPT ![c].pc = "wfb_boot_poll"]
    /\ UNCHANGED <<disk, sdk, registry, procs, now, stopped>>

\* _wait_for_boot, lines 744 and 755: the second loop's condition, on the
\* same start time; past it the watcher returns False
WatchBootTest(c) ==
    LET f == frame[c] IN
    /\ f.pc = "wfb_boot"
    /\ frame' = [frame EXCEPT ![c] =
                    IF f.elapsed < f.timeout THEN [f EXCEPT !.pc = "wfb_boot_poll"]
                    ELSE BootFailed(f)]
    /\ UNCHANGED <<disk, sdk, registry, procs, now, stopped>>

\* _wait_for_boot, lines 745-752: getprop sys.boot_completed; True when it
\* reads 1
WatchBootPoll(c) ==
    LET f == frame[c] IN
    /\ f.pc = "wfb_boot_poll"
    /\ frame' = [frame EXCEPT ![c].pc = IF BootCompleted(f.port) THEN "start_meta"
                                        ELSE "wfb_boot_sleep",
                              ![c].booted = BootCompleted(f.port)]
    /\ UNCHANGED <<disk, sdk, registry, procs, now, stopped>>

\* start, lines 440-446: last_accessed of the loaded metadata is set and saved
StartMeta(c) ==
    LET f == frame[c] IN
    /\ f.pc = "start_meta"
    /\ IF f.metadata.exists
       THEN \E t \in Clock :
            /\ meta' = [meta EXCEPT ![f.sid] =
                          SaveMetadata([f.metadata EXCEPT !.last_accessed = t])]
            /\ now' = t
       ELSE UNCHANGED <<meta, now>>
    /\ frame' = [frame EXCEPT ![c].pc = "done", ![c].ret = "serial",
                              ![c].retPort = f.port]
    /\ UNCHANGED <<sessionDir, snapDir, userdata, baseImage, sdk, registry, procs, stopped>>

\* ---------------------------------------------------------------- restart
\* restart, lines 492-494: stop, sleep, start with the default wait_boot
Restart(c, s, port) ==
    /\ frame[c].pc = "idle"
    /\ Len(procs) < MaxProcs
    /\ frame' = [frame EXCEPT ![c] =
                    StopEntry([IdleFrame EXCEPT !.op = "restart", !.sid = s,
                                                !.cfgPort = port, !.wait = TRUE,
                                                !.after = "restart_start"])]
    /\ StopReturns(s)
    /\ UNCHANGED <<disk, sdk, registry, procs, now>>

\* restart, lines 493-494: the pause is over, start is entered
RestartStart(c) ==
    /\ frame[c].pc = "restart_sleep"
    /\ StartEntry(c, [IdleFrame EXCEPT !.op = "restart", !.sid = frame[c].sid,
                                       !.called = now,
                                       !.cfgPort = frame[c].cfgPort, !.wait = TRUE])

\* ----------------------------------------------------------------- delete
\* delete_session that takes every call as forced
DeleteSessionForced(c, s, force) ==
    LET f == [IdleFrame EXCEPT !.op = "delete", !.sid = s, !.force = force,
                               !.reg = processes[s] # NoProc]
    IN
    /\ frame[c].pc = "idle"
    /\ frame' = [frame EXCEPT ![c] =
                    IF processes[f.sid] = NoProc THEN [f EXCEPT !.pc = "delete_rm"]
                    ELSE [f EXCEPT !.pc = "stop", !.after = "delete_rm"]]
    /\ UNCHANGED <<disk, sdk, registry, procs, now, stopped>>

\* delete_session that removes the directory of a running session unstopped
DeleteSessionNoStop(c, s, force) ==
    LET f == [IdleFrame EXCEPT !.op = "delete", !.sid = s, !.force = force,
                               !.reg = processes[s] # NoProc]
    IN
    /\ frame[c].pc = "idle"
    /\ frame' = [frame EXCEPT ![c] =
                    IF processes[f.sid] = NoProc \/ f.force
                    THEN [f EXCEPT !.pc = "delete_rm"]
                    ELSE [f EXCEPT !.pc = "done", !.ret = "SessionRunning"]]
    /\ UNCHANGED <<disk, sdk, registry, procs, now, stopped>>

\* delete_session, lines 302-308: a registered session is stopped when forced,
\* refused otherwise
DeleteSession(c, s, force) ==
    LET f == [IdleFrame EXCEPT !.op = "delete", !.sid = s, !.force = force,
                               !.reg = processes[s] # NoProc]
    IN
    /\ frame[c].pc = "idle"
    /\ frame' = [frame EXCEPT ![c] =
                    IF processes[f.sid] = NoProc THEN [f EXCEPT !.pc = "delete_rm"]
                    ELSE IF f.force
                    THEN [f EXCEPT !.pc = "stop", !.after = "delete_rm"]
                    ELSE [f EXCEPT !.pc = "done", !.ret = "SessionRunning"]]
    /\ UNCHANGED <<disk, sdk, registry, procs, now, stopped>>

\* delete_session, lines 310-315: rmtree of the session directory if it exists
DeleteRm(c) ==
    LET f == frame[c] IN
    /\ f.pc = "delete_rm"
    /\ IF sessionDir[f.sid]
       THEN /\ sessionDir' = [sessionDir EXCEPT ![f.sid] = FALSE]
            /\ snapDir' = [snapDir EXCEPT ![f.sid] = FALSE]
            /\ meta' = [meta EXCEPT ![f.sid] = NoMeta]
            /\ userdata' = [userdata EXCEPT ![f.sid] = FALSE]
            /\ frame' = [frame EXCEPT ![c].pc = "done", ![c].ret = "true"]
       ELSE /\ frame' = [frame EXCEPT ![c].pc = "done", ![c].ret = "false"]
            /\ UNCHANGED <<sessionDir, snapDir, meta, userdata>>
    /\ UNCHANGED <<baseImage, sdk, registry, procs, now, stopped>>

\* -------------------------------------------------------------- snapshots
\* a set as a sequence, in some fixed order
RECURSIVE SeqOf(_)
SeqOf(S) ==
    IF S = {} THEN <<>>
    ELSE LET x == CHOOSE y \in S : TRUE IN <<x>> \o SeqOf(S \ {x})

\* what the emulator prints in the ID column of a snapshot row
SnapshotIds == {"--", "1"}

\* the lines (as their whitespace-separated words) that
\* adb emu avd snapshot list prints for an AVD holding the snapshots S: a
\* title, the column header, one row per snapshot with its ID in the first
\* column and its tag in the second, and the console's OK
SnapshotListing(S, id) ==
    <<<<"List", "of", "snapshots">>, <<"ID", "TAG", "VM SIZE", "DATE", "VM CLOCK">>>>
    \o [i \in 1..Cardinality(S) |-> <<id, SeqOf(S)[i], "1.0G", "date", "clock">>]
    \o <<<<"OK">>>>

\* line.startswith("ID") and line.startswith("-"), by the line's first word
StartsWithID(w) == w \in {"ID"}
StartsWithDash(w) == w \in {"-", "--"}

\* list_snapshots, lines 593-602: the first word of every line that is not
\* empty and starts with neither "ID" nor "-"
ParseSnapshotList(lines) ==
    LET kept == SelectSeq(lines, LAMBDA l :
                    l # <<>> /\ ~StartsWithID(l[1]) /\ ~StartsWithDash(l[1]))
    IN [i \in 1..Len(kept) |-> kept[i][1]]

\* list.append / list.remove on a metadata list
AppendNew(list, x) ==
    IF \E i \in 1..Len(list) : list[i] = x THEN list ELSE Append(list, x)

Remove(list, x) == SelectSeq(list, LAMBDA y : y # x)

Has(list, x) == \E i \in 1..Len(list) : list[i] = x

\* save_snapshot / load_snapshot / delete_snapshot, lines 524-526, 558-560,
\* 606-608: without a _ports entry the call raises; otherwise the adb command
\* is built for emulator-<port>
SnapshotEntry(c, f) ==
    /\ frame[c].pc = "idle"
    /\ frame' = [frame EXCEPT ![c] =
                    IF GetSerial(f.sid) = NoPort
                    THEN [f EXCEPT !.pc = "done", !.ret = "SessionNotRunning",
                                   !.running = IsRunning(f.sid)]
                    ELSE [f EXCEPT !.pc = "snap_adb", !.port = GetSerial(f.sid),
                                   !.running = IsRunning(f.sid)]]
    /\ UNCHANGED <<disk, sdk, registry, procs, now, stopped>>

SaveSnapshot(c, s, n) ==
    SnapshotEntry(c, [IdleFrame EXCEPT !.op = "save_snapshot", !.sid = s, !.name = n])

LoadSnapshot(c, s, n) ==
    SnapshotEntry(c, [IdleFrame EXCEPT !.op = "load_snapshot", !.sid = s, !.name = n])

DeleteSnapshot(c, s, n) ==
    SnapshotEntry(c, [IdleFrame EXCEPT !.op = "delete_snapshot", !.sid = s, !.name = n])

\* subprocess.run of adb -s <serial> emu avd snapshot save|load|delete <name>,
\* lines 528-532, 562-566, 610-614: exit code 0 only from a device of that
\* serial, which then has saved or deleted the snapshot in its AVD
SnapAdb(c) ==
    LET f == frame[c] IN
    /\ f.pc = "snap_adb"
    /\ \E rc \in {"0", "1"} :
          /\ rc = "0" => DeviceReady(f.port)
          /\ (rc = "0" /\ f.op = "load_snapshot") => f.name \in sdk.snapshots
          /\ sdk' = IF rc = "0" /\ f.op = "save_snapshot"
                    THEN [sdk EXCEPT !.snapshots = @ \cup {f.name}]
                    ELSE IF rc = "0" /\ f.op = "delete_snapshot"
                    THEN [sdk EXCEPT !.snapshots = @ \ {f.name}]
                    ELSE sdk
          /\ frame' = [frame EXCEPT ![c].rc = rc, ![c].pc = "snap_result"]
    /\ UNCHANGED <<disk, registry, procs, now, stopped>>

\* the snapshots list after save_snapshot / delete_snapshot reconciled it
Reconciled(f, list) ==
    IF f.op = "save_snapshot" THEN AppendNew(list, f.name)
    ELSE IF f.op = "delete_snapshot" THEN Remove(list, f.name)
    ELSE list

\* save_snapshot / delete_snapshot that reconcile the metadata whatever the
\* exit code was
SnapResultAnyCode(c) ==
    LET f == frame[c]
        m == LoadMetadata(f.sid)
    IN
    /\ f.pc = "snap_result"
    /\ IF f.op # "load_snapshot" /\ GetSession(f.sid) # "none" /\ m.exists /\ m.valid
       THEN meta' = [meta EXCEPT ![f.sid].snapshots = Reconciled(f, m.snapshots)]
       ELSE UNCHANGED meta
    /\ frame' = [frame EXCEPT ![c].pc = "done",
                              ![c].ret = IF f.rc = "0" THEN "true" ELSE "false"]
    /\ UNCHANGED <<sessionDir, snapDir, userdata, baseImage, sdk, registry, procs,
                   now, stopped>>

\* lines 534-546, 568-573, 616-627: on exit code 0 save and delete load the
\* metadata of get_session(id), change the list and save it, and the call
\* returns True; otherwise it returns False.  _load_metadata(None) raises
\* TypeError, an invalid metadata file raises
SnapResult(c) ==
    LET f == frame[c]
        m == LoadMetadata(f.sid)
    IN
    /\ f.pc = "snap_result"
    /\ IF f.rc # "0"
       THEN /\ frame' = [frame EXCEPT ![c].pc = "done", ![c].ret = "false"]
            /\ UNCHANGED meta
       ELSE IF f.op = "load_snapshot"
       THEN /\ frame' = [frame EXCEPT ![c].pc = "done", ![c].ret = "true"]
            /\ UNCHANGED meta
       ELSE IF GetSession(f.sid) = "none"
       THEN /\ frame' = [frame EXCEPT ![c].pc = "done", ![c].ret = "TypeError"]
            /\ UNCHANGED meta
       ELSE IF LoadRaises(f.sid)
       THEN /\ frame' = [frame EXCEPT ![c].pc = "done", ![c].ret = "MetadataError"]
            /\ UNCHANGED meta
       ELSE /\ frame' = [frame EXCEPT ![c].pc = "done", ![c].ret = "true"]
            /\ IF m.exists
               THEN meta' = [meta EXCEPT ![f.sid] =
                       SaveMetadata([m EXCEPT !.snapshots = Reconciled(f, m.snapshots)])]
               ELSE UNCHANGED meta
    /\ UNCHANGED <<sessionDir, snapDir, userdata, baseImage, sdk, registry, procs,
                   now, stopped>>

\* list_snapshots, lines 577-585: without a _ports entry the list of the
\* metadata, or [] when there is no session or no metadata; otherwise the adb
\* command is built
ListSnapshots(c, s) ==
    LET f == [IdleFrame EXCEPT !.op = "list_snapshots", !.sid = s,
                               !.running = IsRunning(s)]
    IN
    /\ frame[c].pc = "idle"
    /\ frame' = [frame EXCEPT ![c] =
                    IF GetSerial(s) # NoPort
                    THEN [f EXCEPT !.pc = "list_adb", !.port = GetSerial(s)]
                    ELSE IF LoadRaises(s)
                    THEN [f EXCEPT !.pc = "done", !.ret = "MetadataError"]
                    ELSE [f EXCEPT !.pc = "done", !.ret = "list",
                                   !.retList = LoadMetadata(s).snapshots]]
    /\ UNCHANGED <<disk, sdk, registry, procs, now, stopped>>

\* list_snapshots, lines 587-602: adb -s <serial> emu avd snapshot list, whose
\* stdout is parsed whatever the exit code was; without a device of that
\* serial stdout is empty
ListAdb(c) ==
    LET f == frame[c] IN
    /\ f.pc = "list_adb"
    /\ \E id \in SnapshotIds :
          LET stdout == IF DeviceReady(f.port) THEN SnapshotListing(sdk.snapshots, id)
                        ELSE <<>>
          IN frame' = [frame EXCEPT ![c].pc = "done", ![c].ret = "list",
                                    ![c].retList = ParseSnapshotList(stdout)]
    /\ UNCHANGED <<disk, sdk, registry, procs, now, stopped>>

\* ---------------------------------------------------------- app management
\* install_apk, lines 643-645: without a _ports entry the call raises.  pkg is
\* what aapt dump badging gives for the APK: a package name, or "none" when
\* aapt is missing, fails or prints no package line
InstallApk(c, s, pkg) ==
    LET f == [IdleFrame EXCEPT !.op = "install_apk", !.sid = s, !.name = pkg] IN
    /\ frame[c].pc = "idle"
    /\ frame' = [frame EXCEPT ![c] =
                    IF GetSerial(s) = NoPort
                    THEN [f EXCEPT !.pc = "done", !.ret = "SessionNotRunning",
                                   !.running = IsRunning(s)]
                    ELSE [f EXCEPT !.pc = "install_adb", !.port = GetSerial(s),
                                   !.running = IsRunning(s)]]
    /\ UNCHANGED <<disk, sdk, registry, procs, now, stopped>>

\* subprocess.run of adb -s <serial> install -r <apk>, lines 647-651: exit
\* code 0 only from a device of that serial
InstallAdb(c) ==
    LET f == frame[c] IN
    /\ f.pc = "install_adb"
    /\ \E rc \in {"0", "1"} :
          /\ rc = "0" => DeviceReady(f.port)
          /\ frame' = [frame EXCEPT ![c].rc = rc, ![c].pc = "install_result"]
    /\ UNCHANGED <<disk, sdk, registry, procs, now, stopped>>

\* install_apk that lets a failure to resolve the package name out
InstallResultPropagates(c) ==
    LET f == frame[c]
        m == LoadMetadata(f.sid)
    IN
    /\ f.pc = "install_result"
    /\ IF f.rc = "0" /\ f.name # "none" /\ GetSession(f.sid) # "none"
          /\ ~LoadRaises(f.sid) /\ m.exists
       THEN meta' = [meta EXCEPT ![f.sid] =
               SaveMetadata([m EXCEPT !.installed_packages = AppendNew(@, f.name)])]
       ELSE UNCHANGED meta
    /\ frame' = [frame EXCEPT ![c].pc = "done",
                              ![c].ret = IF f.rc # "0" THEN "false"
                                         ELSE IF f.name = "none" THEN "ResolveError"
                                         ELSE "true"]
    /\ UNCHANGED <<sessionDir, snapDir, userdata, baseImage, sdk, registry, procs,
                   now, stopped>>

\* install_apk that records the package without looking for it in the list
InstallResultAppend(c) ==
    LET f == frame[c]
        m == LoadMetadata(f.sid)
    IN
    /\ f.pc = "install_result"
    /\ IF f.rc = "0" /\ f.name # "none" /\ GetSession(f.sid) # "none"
          /\ ~LoadRaises(f.sid) /\ m.exists
       THEN meta' = [meta EXCEPT ![f.sid].installed_packages = Append(@, f.name)]
       ELSE UNCHANGED meta
    /\ frame' = [frame EXCEPT ![c].pc = "done",
                              ![c].ret = IF f.rc = "0" THEN "true" ELSE "false"]
    /\ UNCHANGED <<sessionDir, snapDir, userdata, baseImage, sdk, registry, procs,
                   now, stopped>>

\* install_apk, lines 653-678: on exit code 0 the resolved package is appended
\* to installed_packages unless it is there, whatever raises on the way is
\* swallowed, and the call returns True; otherwise it returns False
InstallResult(c) ==
    LET f == frame[c]
        m == LoadMetadata(f.sid)
    IN
    /\ f.pc = "install_result"
    /\ IF f.rc = "0" /\ f.name # "none" /\ GetSession(f.sid) # "none"
          /\ ~LoadRaises(f.sid) /\ m.exists
       THEN meta' = [meta EXCEPT ![f.sid] =
               SaveMetadata([m EXCEPT !.installed_packages = AppendNew(@, f.name)])]
       ELSE UNCHANGED meta
    /\ frame' = [frame EXCEPT ![c].pc = "done",
                              ![c].ret = IF f.rc = "0" THEN "true" ELSE "false"]
    /\ UNCHANGED <<sessionDir, snapDir, userdata, baseImage, sdk, registry, procs,
                   now, stopped>>

\* ------------------------------------------------------------------ queries
\* is_running(s) called by the caller, lines 496-502
CallIsRunning(c, s) ==
    /\ frame[c].pc = "idle"
    /\ frame' = [frame EXCEPT ![c] =
                    [IdleFrame EXCEPT !.op = "is_running", !.sid = s, !.pc = "done",
                                      !.reg = processes[s] # NoProc,
                                      !.ret = IF IsRunning(s) THEN "true" ELSE "false"]]
    /\ UNCHANGED <<disk, sdk, registry, procs, now, stopped>>

\* get_serial(s) called by the caller, lines 504-508
CallGetSerial(c, s) ==
    /\ frame[c].pc = "idle"
    /\ frame' = [frame EXCEPT ![c] =
                    [IdleFrame EXCEPT !.op = "get_serial", !.sid = s, !.pc = "done",
                                      !.ret = IF GetSerial(s) = NoPort THEN "none"
                                              ELSE "serial",
                                      !.retPort = GetSerial(s)]]
    /\ UNCHANGED <<disk, sdk, registry, procs, now, stopped>>

\* get_session(s) called by the caller, lines 275-280
CallGetSession(c, s) ==
    /\ frame[c].pc = "idle"
    /\ frame' = [frame EXCEPT ![c] =
                    [IdleFrame EXCEPT !.op = "get_session", !.sid = s, !.pc = "done",
                                      !.ret = IF GetSession(s) = "none" THEN "none"
                                              ELSE "path"]]
    /\ UNCHANGED <<disk, sdk, registry, procs, now, stopped>>

\* get_session(id), then _load_metadata of the path it returned
RoundTrip(c, s) ==
    LET f == [IdleFrame EXCEPT !.op = "round_trip", !.sid = s] IN
    /\ frame[c].pc = "idle"
    /\ frame' = [frame EXCEPT ![c] =
                    IF GetSession(s) = "none" \/ ~LoadMetadata(s).exists
                    THEN [f EXCEPT !.pc = "done", !.ret = "none"]
                    ELSE IF LoadRaises(s)
                    THEN [f EXCEPT !.pc = "done", !.ret = "MetadataError"]
                    ELSE [f EXCEPT !.pc = "round_trip_save",
                                   !.metadata = LoadMetadata(s)]]
    /\ UNCHANGED <<disk, sdk, registry, procs, now, stopped>>

\* _save_metadata of the loaded record, then _load_metadata again
RoundTripSave(c) ==
    LET f == frame[c] IN
    /\ f.pc = "round_trip_save"
    /\ meta' = [meta EXCEPT ![f.sid] = SaveMetadata(f.metadata)]
    /\ frame' = [frame EXCEPT ![c].pc = "done",
                              ![c].ret = IF SaveMetadata(f.metadata).valid
                                         THEN "metadata" ELSE "MetadataError",
                              ![c].metadata = SaveMetadata(f.metadata)]
    /\ UNCHANGED <<sessionDir, snapDir, userdata, baseImage, sdk, registry, procs,
                   now, stopped>>

\* list_sessions, lines 282-290: the metadata of every session directory that
\* has a metadata file; a file that is not valid metadata makes
\* _load_metadata, and so list_sessions, raise
ListSessions(c) ==
    LET f == [IdleFrame EXCEPT !.op = "list_sessions"]
        dirs == {s \in Sessions : sessionDir[s]}
        found == SeqOf({s \in dirs : LoadMetadata(s).exists})
    IN
    /\ frame[c].pc = "idle"
    /\ frame' = [frame EXCEPT ![c] =
                    IF \E s \in dirs : LoadRaises(s)
                    THEN [f EXCEPT !.pc = "done", !.ret = "MetadataError"]
                    ELSE [f EXCEPT !.pc = "done", !.ret = "list",
                                   !.retList = [i \in 1..Len(found) |->
                                                   LoadMetadata(found[i])]]]
    /\ UNCHANGED <<disk, sdk, registry, procs, now, stopped>>

\* --------------------------------------------------------------------- spec
Init ==
    /\ sessionDir = [s \in Sessions |-> FALSE]
    /\ snapDir = [s \in Sessions |-> FALSE]
    /\ meta = [s \in Sessions |-> NoMeta]
    /\ userdata = [s \in Sessions |-> FALSE]
    /\ baseImage = FALSE
    /\ sdk = [image |-> FALSE, avd |-> FALSE, snapshots |-> {}]
    /\ processes = [s \in Sessions |-> NoProc]
    /\ ports = [s \in Sessions |-> NoPort]
    /\ procs = <<>>
    /\ now = 0
    /\ stopped = [s \in Sessions |-> FALSE]
    /\ frame = [c \in Callers |-> IdleFrame]

Next ==
    \/ \E c \in Callers : Return(c)
    \/ \E c \in Callers, s \in Sessions, t \in Templates : CreateSession(c, s, t)
    \/ \E c \in Callers, s \in Sessions : Stop(c, s)
    \/ \E c \in Callers : StopNested(c)
    \/ \E c \in Callers : StopAdb(c)
    \/ \E c \in Callers : StopWait(c)
    \/ \E c \in Callers : StopKill(c)
    \/ \E c \in Callers : StopDel(c)
    \/ \E c \in Callers, s \in Sessions, port \in CfgPorts, wait \in BOOLEAN :
          Start(c, s, port, wait)
    \/ \E c \in Callers : StartAvd(c)
    \/ \E c \in Callers : StartPort(c)
    \/ \E c \in Callers : StartPopen(c)
    \/ \E c \in Callers : WaitDevice(c)
    \/ \E c \in Callers : WaitBoot(c)
    \/ \E c \in Callers : StartMeta(c)
    \/ \E c \in Callers, s \in Sessions, port \in RestartPorts : Restart(c, s, port)
    \/ \E c \in Callers : RestartStart(c)
    \/ \E c \in Callers, s \in Sessions, force \in BOOLEAN : DeleteSession(c, s, force)
    \/ \E c \in Callers : DeleteRm(c)
    \/ \E p \in 1..Len(procs) : EmuAdvance(p)
    \/ \E p \in 1..Len(procs) : Crash(p)

Spec == Init /\ [][Next]_vars

\* ------------------------------------------- the session operations
\* config.port values a caller passes while it uses snapshots and installs
OpsPorts == {NoPort, PortLo}
\* the sessions it uses them on; it starts and stops every session
OpsSessions == {"s1"}

NextOps ==
    \/ \E c \in Callers : Return(c)
    \/ \E c \in Callers, s \in OpsSessions : CreateSession(c, s, "none")
    \/ \E c \in Callers, s \in Sessions : Stop(c, s)
    \/ \E c \in Callers : StopNested(c)
    \/ \E c \in Callers : StopAdb(c)
    \/ \E c \in Callers : StopWait(c)
    \/ \E c \in Callers : StopKill(c)
    \/ \E c \in Callers : StopDel(c)
    \/ \E c \in Callers, s \in Sessions, port \in OpsPorts, wait \in BOOLEAN :
          Start(c, s, port, wait)
    \/ \E c \in Callers : StartAvd(c)
    \/ \E c \in Callers : StartPort(c)
    \/ \E c \in Callers : StartPopen(c)
    \/ \E c \in Callers : WaitDevice(c)
    \/ \E c \in Callers : WaitBoot(c)
    \/ \E c \in Callers : StartMeta(c)
    \/ \E c \in Callers, s \in OpsSessions : Restart(c, s, PortLo)
    \/ \E c \in Callers : RestartStart(c)
    \/ \E c \in Callers, s \in OpsSessions, force \in BOOLEAN : DeleteSession(c, s, force)
    \/ \E c \in Callers : DeleteRm(c)
    \/ \E p \in 1..Len(procs) : EmuAdvance(p)
    \/ \E p \in 1..Len(procs) : Crash(p)
    \/ Tick
    \/ \E c \in Callers, s \in OpsSessions, n \in SnapNames : SaveSnapshot(c, s, n)
    \/ \E c \in Callers, s \in OpsSessions, n \in SnapNames : LoadSnapshot(c, s, n)
    \/ \E c \in Callers, s \in OpsSessions, n \in SnapNames : DeleteSnapshot(c, s, n)
    \/ \E c \in Callers : SnapAdb(c)
    \/ \E c \in Callers : SnapResult(c)
    \/ \E c \in Callers, s \in OpsSessions : ListSnapshots(c, s)
    \/ \E c \in Callers : ListAdb(c)
    \/ \E c \in Callers, s \in OpsSessions, pkg \in Packages \cup {"none"} :
          InstallApk(c, s, pkg)
    \/ \E c \in Callers : InstallAdb(c)
    \/ \E c \in Callers : InstallResult(c)
    \/ \E c \in Callers, s \in OpsSessions : CallIsRunning(c, s)
    \/ \E c \in Callers, s \in OpsSessions : CallGetSerial(c, s)
    \/ \E c \in Callers, s \in OpsSessions : RoundTrip(c, s)
    \/ \E c \in Callers : RoundTripSave(c)

SpecOps == Init /\ [][NextOps]_vars

\* ------------------------------------------------------ concurrent starts
\* two threads share one manager; each starts a session of its own
Threads == {"c1", "c2"}
SessionOf(c) == IF c = "c1" THEN "s1" ELSE "s2"
ConcPorts == {NoPort, PortLo}

InitConc ==
    /\ sessionDir = [s \in Sessions |-> FALSE]
    /\ snapDir = [s \in Sessions |-> FALSE]
    /\ meta = [s \in Sessions |-> NoMeta]
    /\ userdata = [s \in Sessions |-> FALSE]
    /\ baseImage = FALSE
    /\ sdk = [image |-> FALSE, avd |-> FALSE, snapshots |-> {}]
    /\ processes = [s \in Sessions |-> NoProc]
    /\ ports = [s \in Sessions |-> NoPort]
    /\ procs = <<>>
    /\ now = 0
    /\ stopped = [s \in Sessions |-> FALSE]
    /\ frame = [c \in Threads |-> IdleFrame]

NextConc ==
    \/ \E c \in Threads : Return(c)
    \/ \E c \in Threads, port \in ConcPorts, wait \in BOOLEAN :
          Start(c, SessionOf(c), port, wait)
    \/ \E c \in Threads : StartAvd(c)
    \/ \E c \in Threads : StartPort(c)
    \/ \E c \in Threads : StartPopen(c)
    \/ \E c \in Threads : WaitDevice(c)
    \/ \E c \in Threads : WaitBoot(c)
    \/ \E c \in Threads : StartMeta(c)
    \/ \E c \in Threads : StopNested(c)
    \/ \E c \in Threads : StopAdb(c)
    \/ \E c \in Threads : StopWait(c)
    \/ \E c \in Threads : StopKill(c)
    \/ \E c \in Threads : StopDel(c)
    \/ \E p \in 1..Len(procs) : EmuAdvance(p)

SpecConc == InitConc /\ [][NextConc]_vars

\* ------------------------------------------------------ the session store
\* what a session directory holds when the manager is constructed: nothing
\* (no directory), a directory without metadata.json, a directory whose
\* metadata.json is not valid metadata
StoredDirs == {"absent", "bare", "corrupt"}

InitStore ==
    /\ \E d \in [Sessions -> StoredDirs] :
          /\ sessionDir = [s \in Sessions |-> d[s] # "absent"]
          /\ snapDir = [s \in Sessions |-> d[s] # "absent"]
          /\ meta = [s \in Sessions |-> IF d[s] = "corrupt" THEN CorruptMeta ELSE NoMeta]
    /\ userdata = [s \in Sessions |-> FALSE]
    /\ baseImage = FALSE
    /\ sdk = [image |-> FALSE, avd |-> FALSE, snapshots |-> {}]
    /\ processes = [s \in Sessions |-> NoProc]
    /\ ports = [s \in Sessions |-> NoPort]
    /\ procs = <<>>
    /\ now = 0
    /\ stopped = [s \in Sessions |-> FALSE]
    /\ frame = [c \in Callers |-> IdleFrame]

NextStore ==
    \/ \E c \in Callers : Return(c)
    \/ \E c \in Callers, s \in Sessions : CreateSession(c, s, "none")
    \/ \E c \in Callers, s \in Sessions : CallGetSession(c, s)
    \/ \E c \in Callers : ListSessions(c)
    \/ \E c \in Callers, s \in Sessions : DeleteSession(c, s, FALSE)
    \/ \E c \in Callers : DeleteRm(c)
    \/ \E c \in Callers, s \in Sessions : Start(c, s, PortLo, FALSE)
    \/ \E c \in Callers : StartAvd(c)
    \/ \E c \in Callers : StartPort(c)
    \/ \E c \in Callers : StartPopen(c)
    \/ \E c \in Callers : StartMeta(c)
    \/ \E c \in Callers, s \in Sessions : Stop(c, s)
    \/ \E c \in Callers : StopAdb(c)
    \/ \E c \in Callers : StopWait(c)
    \/ \E c \in Callers : StopKill(c)
    \/ \E c \in Callers : StopDel(c)
    \/ \E p \in 1..Len(procs) : EmuAdvance(p)

SpecStore == InitStore /\ [][NextStore]_vars

\* --------------------------------------------------- the command line (emu)
\* every command is a process of its own: get_manager() builds a manager with
\* an empty registry, the command makes its manager call, prints and exits

\* the command's output and exit code once its manager call has returned or
\* raised; an exception that nothing catches ends the process with a
\* traceback and exit code 1
CliOutcome(f) ==
    CASE f.op = "create" ->
            IF f.ret = "path" THEN [exit |-> "0", msg |-> "Created session"]
            ELSE [exit |-> "1", msg |-> "Traceback"]
      [] f.op = "start" ->
            IF f.ret = "serial" THEN [exit |-> "0", msg |-> "Emulator running"]
            ELSE [exit |-> "1", msg |-> "Traceback"]
      [] f.op = "stop" -> [exit |-> "0", msg |-> "Stopped session"]
      [] f.op = "delete" ->
            IF f.ret = "SessionRunning" THEN [exit |-> "1", msg |-> "Traceback"]
            ELSE [exit |-> "0", msg |-> "Deleted session"]
      [] f.op = "get_session" ->
            IF f.ret = "none" THEN [exit |-> "1", msg |-> "not found"]
            ELSE IF LoadRaises(f.sid) THEN [exit |-> "1", msg |-> "Traceback"]
            ELSE [exit |-> "0", msg |-> "Session"]
      [] OTHER -> [exit |-> "1", msg |-> "Traceback"]

\* the command prints and the process exits
CliExit(c) ==
    LET f == frame[c] IN
    /\ f.pc = "done"
    /\ frame' = [frame EXCEPT ![c].pc = "exited",
                              ![c].exit = CliOutcome(f).exit,
                              ![c].msg = CliOutcome(f).msg]
    /\ UNCHANGED <<disk, sdk, registry, procs, now, stopped>>

\* emu delete without --force when the confirmation is declined: typer.Abort
EmuDeleteAbort(c, s) ==
    /\ frame[c].pc = "idle"
    /\ frame' = [frame EXCEPT ![c] =
                    [IdleFrame EXCEPT !.op = "delete", !.sid = s, !.pc = "exited",
                                      !.ret = "Abort", !.exit = "1",
                                      !.msg = "Aborted"]]
    /\ UNCHANGED <<disk, sdk, registry, procs, now, stopped>>

\* the next command is typed
CliReturn(c) ==
    /\ frame[c].pc = "exited"
    /\ frame' = [frame EXCEPT ![c] = IdleFrame]
    /\ UNCHANGED <<disk, sdk, registry, procs, now, stopped>>

InitCli == InitStore

NextCli ==
    \/ \E c \in Callers, s \in Sessions : CreateSession(c, s, "none")
    \/ \E c \in Callers, s \in Sessions, wait \in BOOLEAN : Start(c, s, NoPort, wait)
    \/ \E c \in Callers : StartAvd(c)
    \/ \E c \in Callers : StartPort(c)
    \/ \E c \in Callers, s \in Sessions : Stop(c, s)
    \/ \E c \in Callers, s \in Sessions, force \in BOOLEAN : DeleteSession(c, s, force)
    \/ \E c \in Callers : DeleteRm(c)
    \/ \E c \in Callers, s \in Sessions : EmuDeleteAbort(c, s)
    \/ \E c \in Callers, s \in Sessions : CallGetSession(c, s)
    \/ \E c \in Callers : CliExit(c)
    \/ \E c \in Callers : CliReturn(c)

SpecCli == InitCli /\ [][NextCli]_vars

\* ------------------------------------------------------- start and its watcher
\* one caller starts and stops one session on a fixed port, waiting for the
\* boot; the emulator comes up, or not, or exits
NextBoot ==
    \/ \E c \in Callers : Return(c)
    \/ \E c \in Callers : Start(c, "s1", PortLo, TRUE)
    \/ \E c \in Callers : StartAvd(c)
    \/ \E c \in Callers : StartPort(c)
    \/ \E c \in Callers : StartPopen(c)
    \/ \E c \in Callers : WatchEnter(c)
    \/ \E c \in Callers : WatchTick(c)
    \/ \E c \in Callers : WatchDevTest(c)
    \/ \E c \in Callers : WatchDevPoll(c)
    \/ \E c \in Callers : WatchSleep(c)
    \/ \E c \in Callers : WatchBootTest(c)
    \/ \E c \in Callers : WatchBootPoll(c)
    \/ \E c \in Callers : StartMeta(c)
    \/ \E c \in Callers : Stop(c, "s1")
    \/ \E c \in Callers : StopNested(c)
    \/ \E c \in Callers : StopAdb(c)
    \/ \E c \in Callers : StopWait(c)
    \/ \E c \in Callers : StopKill(c)
    \/ \E c \in Callers : StopDel(c)
    \/ \E p \in 1..Len(procs) : EmuAdvance(p)
    \/ \E p \in 1..Len(procs) : Crash(p)

SpecBoot == Init /\ [][NextBoot]_vars

\* every poll and every sleep of the watcher returns, and so does every step
\* of the stop that follows a failed wait (the adb request is limited to 10 s,
\* the wait to 30 s, SIGKILL ends the process) and the metadata update
FairBoot ==
    \A c \in Callers :
        /\ WF_vars(WatchDevTest(c)) /\ WF_vars(WatchDevPoll(c))
        /\ WF_vars(WatchSleep(c))
        /\ WF_vars(WatchBootTest(c)) /\ WF_vars(WatchBootPoll(c))
        /\ WF_vars(StartMeta(c))
        /\ WF_vars(StopNested(c)) /\ WF_vars(StopAdb(c)) /\ WF_vars(StopWait(c))
        /\ WF_vars(StopKill(c)) /\ WF_vars(StopDel(c))

SpecBootLive == SpecBoot /\ FairBoot

\* ---------------------------------------------------------- provisioning
\* the caller provisions the AVD itself and starts and stops sessions, which
\* provisions it too
NextAvd ==
    \/ \E c \in Callers : Return(c)
    \/ \E c \in Callers : CreateBaseAvd(c)
    \/ \E c \in Callers, s \in Sessions : Start(c, s, PortLo, FALSE)
    \/ \E c \in Callers : StartAvd(c)
    \/ \E c \in Callers : StartPort(c)
    \/ \E c \in Callers : StartPopen(c)
    \/ \E c \in Callers : StartMeta(c)
    \/ \E c \in Callers, s \in Sessions : Stop(c, s)
    \/ \E c \in Callers : StopAdb(c)
    \/ \E c \in Callers : StopWait(c)
    \/ \E c \in Callers : StopKill(c)
    \/ \E c \in Callers : StopDel(c)
    \/ \E p \in 1..Len(procs) : EmuAdvance(p)

SpecAvd == Init /\ [][NextAvd]_vars

\* ------------------------------------------------- stop and save_snapshot
\* the caller starts sessions and stops them with either value of
\* save_snapshot (emu stop, emu stop --no-save)
NextSave ==
    \/ \E c \in Callers : Return(c)
    \/ \E c \in Callers, s \in Sessions : Start(c, s, PortLo, FALSE)
    \/ \E c \in Callers : StartAvd(c)
    \/ \E c \in Callers : StartPort(c)
    \/ \E c \in Callers : StartPopen(c)
    \/ \E c \in Callers : StartMeta(c)
    \/ \E c \in Callers, s \in Sessions, save \in BOOLEAN : StopWith(c, s, save)
    \/ \E c \in Callers : StopAdb(c)
    \/ \E c \in Callers : StopWait(c)
    \/ \E c \in Callers : StopKill(c)
    \/ \E c \in Callers : StopDel(c)
    \/ \E p \in 1..Len(procs) : EmuAdvance(p)
    \/ \E p \in 1..Len(procs) : Crash(p)

SpecSave == Init /\ [][NextSave]_vars

\* ------------------------------------------------------------ templates
\* the shared base image is put in place by the operator, or not; sessions
\* are created from it and from each other, and s1 is started and used
InitTemplate ==
    /\ sessionDir = [s \in Sessions |-> FALSE]
    /\ snapDir = [s \in Sessions |-> FALSE]
    /\ meta = [s \in Sessions |-> NoMeta]
    /\ userdata = [s \in Sessions |-> FALSE]
    /\ baseImage \in BOOLEAN
    /\ sdk = [image |-> FALSE, avd |-> FALSE, snapshots |-> {}]
    /\ processes = [s \in Sessions |-> NoProc]
    /\ ports = [s \in Sessions |-> NoPort]
    /\ procs = <<>>
    /\ now = 0
    /\ stopped = [s \in Sessions |-> FALSE]
    /\ frame = [c \in Callers |-> IdleFrame]

NextTemplate ==
    \/ \E c \in Callers : Return(c)
    \/ \E c \in Callers, s \in Sessions, t \in Templates : CreateSession(c, s, t)
    \/ \E c \in Callers : Start(c, "s1", PortLo, FALSE)
    \/ \E c \in Callers : StartAvd(c)
    \/ \E c \in Callers : StartPort(c)
    \/ \E c \in Callers : StartPopen(c)
    \/ \E c \in Callers : StartMeta(c)
    \/ \E p \in 1..Len(procs) : EmuAdvance(p)
    \/ \E c \in Callers, n \in SnapNames : SaveSnapshot(c, "s1", n)
    \/ \E c \in Callers : SnapAdb(c)
    \/ \E c \in Callers : SnapResult(c)
    \/ \E c \in Callers, pkg \in Packages : InstallApk(c, "s1", pkg)
    \/ \E c \in Callers : InstallAdb(c)
    \/ \E c \in Callers : InstallResult(c)
    \/ \E c \in Callers, s \in Sessions : DeleteSession(c, s, FALSE)
    \/ \E c \in Callers : DeleteRm(c)

SpecTemplate == InitTemplate /\ [][NextTemplate]_vars

\* ------------------------------------------------------------------ claims
Registered(s) == processes[s] # NoProc

\* the step in which caller c calls operation op on session s
Calls(c, op, s) ==
    /\ frame[c].pc = "idle"
    /\ frame'[c].op = op
    /\ frame'[c].sid = s

\* caller c's call of op has returned (or raised) and f is its frame
Returned(c, op) == frame[c].pc = "done" /\ frame[c].op = op

\* C1: no two sessions in the registry hold the same port, and no session's
\* control port is another session's console port (port + 1).
C1_DistinctPorts ==
    \A s, t \in Sessions :
        (s # t /\ Registered(s) /\ Registered(t))
            => (ports[s] # ports[t] /\ ports[s] # ports[t] + 1)

\* C2: when stop(id) on a registered session returns, it returns True and id is
\* in neither _processes nor _ports, whatever the adb request and the wait did.
C2_StopRemovesEntry ==
    \A c \in Callers :
        (Returned(c, "stop") /\ frame[c].reg)
            => /\ frame[c].ret = "true"
               /\ processes[frame[c].sid] = NoProc
               /\ ports[frame[c].sid] = NoPort

C2_Witness ==
    \E c \in Callers :
        /\ Returned(c, "stop") /\ frame[c].reg
        /\ frame[c].adb = "timeout" /\ frame[c].killed

\* C3: when start raises because the boot watcher returned False, stop has run:
\* the session is in neither _processes nor _ports, the process it spawned has
\* exited, and the metadata is as start loaded it (last_accessed not updated).
C3_BootFailureCleansUp ==
    \A c \in Callers :
        (frame[c].pc = "done" /\ frame[c].ret = "BootTimeout")
            => /\ frame[c].reg
               /\ processes[frame[c].sid] = NoProc
               /\ ports[frame[c].sid] = NoPort
               /\ frame[c].proc # NoProc /\ ~Alive(frame[c].proc)
               /\ LoadMetadata(frame[c].sid) = frame[c].metadata

C3_Witness ==
    \E c \in Callers :
        /\ Returned(c, "start") /\ frame[c].ret = "BootTimeout"
        /\ frame[c].killed /\ frame[c].metadata.exists

C5_StartIdempotent ==
    [][\A c \in Callers, s \in Sessions :
          (Calls(c, "start", s) /\ Registered(s))
              => /\ frame'[c].pc = "done" /\ frame'[c].ret = "serial"
                 /\ frame'[c].retPort = ports[s]
                 /\ UNCHANGED <<disk, sdk, registry, procs, now>>]_vars

C5_Witness ==
    \E c \in Callers :
        /\ Returned(c, "start") /\ frame[c].ret = "serial"
        /\ frame[c].proc = NoProc /\ Registered(frame[c].sid)
        /\ frame[c].retPort = ports[frame[c].sid]

\* C6: create_session(id) on an id whose directory exists raises the
\* already-exists error and changes neither the disk nor the registry, with or
\* without from_template.
C6_CreateExistingFails ==
    [][\A c \in Callers, s \in Sessions :
          (Calls(c, "create", s) /\ sessionDir[s])
              => /\ frame'[c].pc = "done" /\ frame'[c].ret = "AlreadyExists"
                 /\ UNCHANGED <<disk, sdk, registry, procs, now>>]_vars

C6_Witness ==
    \E c \in Callers :
        /\ Returned(c, "create") /\ frame[c].ret = "AlreadyExists"
        /\ frame[c].tmpl # "none" /\ meta[frame[c].sid].exists

\* C7: delete_session(id, force=False) on a session in the registry raises the
\* session-running error and changes nothing: registry, process and disk.
C7_DeleteRunningRefused ==
    [][\A c \in Callers, s \in Sessions :
          (Calls(c, "delete", s) /\ ~frame'[c].force /\ Registered(s))
              => /\ frame'[c].pc = "done" /\ frame'[c].ret = "SessionRunning"
                 /\ UNCHANGED <<disk, sdk, registry, procs, now>>]_vars

C7_Witness ==
    \E c \in Callers :
        /\ Returned(c, "delete") /\ frame[c].ret = "SessionRunning"
        /\ IsRunning(frame[c].sid) /\ sessionDir[frame[c].sid]

\* C8: delete_session(id, force=True) on a registered session stops it before
\* the directory is removed: at the removal and on return id is in neither
\* _processes nor _ports and its process has exited; on return the directory
\* is gone and get_session(id) is None.
C8_ForceDeleteStopsFirst ==
    \A c \in Callers :
        LET f == frame[c] IN
        /\ (f.op = "delete" /\ f.force /\ f.reg /\ f.pc \in {"delete_rm", "done"})
              => /\ processes[f.sid] = NoProc /\ ports[f.sid] = NoPort
                 /\ f.proc # NoProc /\ ~Alive(f.proc)
        /\ (Returned(c, "delete") /\ f.force /\ f.reg)
              => /\ f.ret = "true"
                 /\ ~sessionDir[f.sid] /\ GetSession(f.sid) = "none"

C8_Witness ==
    \E c \in Callers :
        /\ Returned(c, "delete") /\ frame[c].force /\ frame[c].reg
        /\ frame[c].ret = "true"

\* C9: stop(id) on a session not in _processes returns False without raising,
\* issues no adb request, and changes neither the registry, the processes nor
\* the disk.
C9_StopUnregisteredNoOp ==
    [][\A c \in Callers, s \in Sessions :
          (Calls(c, "stop", s) /\ ~Registered(s))
              => /\ frame'[c].pc = "done" /\ frame'[c].ret = "false"
                 /\ frame'[c].adb = "none"
                 /\ UNCHANGED <<disk, sdk, registry, procs, now>>]_vars

C9_Witness ==
    \E c \in Callers :
        /\ Returned(c, "stop") /\ frame[c].ret = "false"
        /\ sessionDir[frame[c].sid]

\* the process this call of start spawned is alive
Launched(c) ==
    /\ frame[c].op = "start" /\ frame[c].pc # "idle"
    /\ frame[c].proc # NoProc /\ Alive(frame[c].proc)

SnapshotOps == {"save_snapshot", "load_snapshot", "delete_snapshot"}

\* C11 as claimed: save_snapshot, load_snapshot and delete_snapshot called on a
\* session whose is_running is false raise the session-not-running error and
\* issue no adb command (so the metadata is not touched either).
C11_SnapshotNeedsRunning ==
    \A c \in Callers :
        (frame[c].op \in SnapshotOps /\ frame[c].pc # "idle" /\ ~frame[c].running)
            => /\ frame[c].pc = "done"
               /\ frame[c].ret = "SessionNotRunning"
               /\ frame[c].rc = "none"

\* C12 as claimed: for a running session whose metadata records n (a save of n
\* succeeded and no delete of n has succeeded since), list_snapshots includes n.
C12_ListIncludesSaved ==
    \A c \in Callers, n \in SnapNames :
        (Returned(c, "list_snapshots") /\ frame[c].running
            /\ IsRunning(frame[c].sid) /\ DeviceReady(frame[c].port)
            /\ n \in sdk.snapshots
            /\ Has(LoadMetadata(frame[c].sid).snapshots, n))
            => Has(frame[c].retList, n)

\* C13 as claimed: list_snapshots(id) called after stop(id) has returned (and
\* before id is started again) returns the snapshots list of the metadata, and
\* the empty list when the session does not exist.
C13_ListAfterStop ==
    \A c \in Callers :
        (Returned(c, "list_snapshots") /\ stopped[frame[c].sid])
            => /\ frame[c].ret = "list"
               /\ frame[c].retList = LoadMetadata(frame[c].sid).snapshots

\* C14: the snapshots list of a session's metadata changes only in the step in
\* which save_snapshot or delete_snapshot, having got exit code 0 from adb,
\* reconciles it; with any other exit code the call returns False and the
\* metadata stays as it is; load_snapshot never changes the metadata.
C14_MetadataAfterSuccess ==
    [][/\ \A s \in Sessions :
             (meta[s].exists /\ meta'[s].exists
                 /\ meta'[s].snapshots # meta[s].snapshots)
                 => \E c \in Callers :
                       /\ frame[c].pc = "snap_result" /\ frame[c].sid = s
                       /\ frame[c].rc = "0"
                       /\ frame[c].op \in {"save_snapshot", "delete_snapshot"}
       /\ \A c \in Callers :
             (frame[c].pc = "snap_result" /\ frame'[c].pc = "done")
                 => /\ frame[c].rc # "0"
                       => (frame'[c].ret = "false" /\ meta' = meta)
                    /\ frame[c].op = "load_snapshot" => meta' = meta]_vars

C14_Witness ==
    \E c \in Callers :
        /\ Returned(c, "delete_snapshot") /\ frame[c].rc = "1"
        /\ frame[c].ret = "false" /\ DeviceReady(frame[c].port)
        /\ Has(LoadMetadata(frame[c].sid).snapshots, frame[c].name)

\* C15 as claimed: install_apk called on a session whose is_running is false
\* raises the session-not-running error and issues no adb install (so
\* installed_packages is not touched either).
C15_InstallNeedsRunning ==
    \A c \in Callers :
        (frame[c].op = "install_apk" /\ frame[c].pc # "idle" /\ ~frame[c].running)
            => /\ frame[c].pc = "done"
               /\ frame[c].ret = "SessionNotRunning"
               /\ frame[c].rc = "none"

IsPrefix(a, b) == Len(a) <= Len(b) /\ \A i \in 1..Len(a) : a[i] = b[i]

NoDuplicates(list) == \A i, j \in 1..Len(list) : list[i] = list[j] => i = j

\* C16: while a session's metadata exists, every step of every operation
\* leaves installed_packages a list that begins with what it was (nothing
\* removed, nothing reordered) and holds no package twice.
C16_PackagesAppendOnly ==
    [][\A s \in Sessions :
          (meta[s].exists /\ meta'[s].exists)
              => /\ IsPrefix(meta[s].installed_packages, meta'[s].installed_packages)
                 /\ NoDuplicates(meta'[s].installed_packages)]_vars

C16_Witness ==
    \E c \in Callers :
        /\ Returned(c, "install_apk") /\ frame[c].ret = "true"
        /\ Len(LoadMetadata(frame[c].sid).installed_packages) = 2
        /\ LoadMetadata(frame[c].sid).installed_packages[1] = frame[c].name

\* C17 as claimed: when start(id) has returned a serial, also for a session
\* that was already registered, the persisted last_accessed is no earlier than
\* the time of the call.
C17_LastAccessedOnStart ==
    \A c \in Callers :
        (Returned(c, "start") /\ frame[c].ret = "serial")
            => /\ LoadMetadata(frame[c].sid).exists
               /\ LoadMetadata(frame[c].sid).last_accessed >= frame[c].called

\* C18 as claimed: a session directory without a metadata file counts as no
\* session: get_session returns None for it, create_session does not raise
\* already-exists for it, and start creates it, so that start always goes on
\* with a metadata record.
C18_MetadataDecidesExistence ==
    \A c \in Callers :
        LET f == frame[c]
            bare == sessionDir[f.sid] /\ ~meta[f.sid].exists
        IN
        /\ (Returned(c, "get_session") /\ bare) => f.ret = "none"
        /\ (Returned(c, "create") /\ bare) => f.ret # "AlreadyExists"
        /\ (f.op = "start" /\ f.pc = "start_avd") => f.metadata.exists

\* C19 as claimed: list_sessions never raises, and returns exactly the metadata
\* of the directories that hold valid metadata.
C19_ListSkipsInvalid ==
    \A c \in Callers :
        Returned(c, "list_sessions")
            => /\ frame[c].ret = "list"
               /\ {frame[c].retList[i] : i \in 1..Len(frame[c].retList)}
                     = {meta[s] : s \in {x \in Sessions :
                                           sessionDir[x] /\ meta[x].exists /\ meta[x].valid}}

\* C20 as claimed: once is_running(id) has returned False for a session that
\* was in the registry, the session is in neither _processes nor _ports (so
\* that get_serial gives None and start launches anew).
C20_CrashDetection ==
    \A c \in Callers :
        (Returned(c, "is_running") /\ frame[c].ret = "false" /\ frame[c].reg)
            => /\ ~Registered(frame[c].sid)
               /\ GetSerial(frame[c].sid) = NoPort

\* C21 as claimed: between operations a session has a _ports entry exactly
\* when it has a _processes entry, after every outcome of start.
C21_PortIffProcess ==
    (\A c \in Callers : frame[c].pc = "idle")
        => \A s \in Sessions : (GetSerial(s) # NoPort) <=> Registered(s)

\* the candidate ports no registry entry holds and on which, with the console
\* port, nothing listens
FreePorts ==
    {p \in CandidatePorts : p \notin UsedPorts /\ Listens(p) \cap BusyPorts = {}}

\* this call of start went past the registry check (it did not return the
\* serial of a session already registered)
Launching(f) == f.op = "start" /\ ~(f.ret = "serial" /\ f.proc = NoProc)

\* C22 as claimed: start without a fixed port, when it neither fails in
\* provisioning, in the spawn nor in the boot wait, returns the serial of a
\* port the allocator gave: even, in [5554, 5682).
C22_AllocatedPortSerial ==
    \A c \in Callers :
        (frame[c].pc = "done" /\ Launching(frame[c]) /\ frame[c].cfgPort = NoPort
            /\ frame[c].ret \notin {"ProvisioningError", "MetadataError",
                                    "LaunchFailure", "BootTimeout"})
            => /\ frame[c].ret = "serial"
               /\ frame[c].retPort \in CandidatePorts

\* C23 as claimed: the allocator raises the resource-exhausted error only when
\* no even port of the range is free of the registry and bindable with its
\* console port.
C23_ExhaustedOnlyWhenFull ==
    \A c \in Callers :
        (frame[c].pc = "done" /\ frame[c].ret = "ResourceExhausted")
            => FreePorts = {}

\* C24: no step of stop(id), from the call to the return, changes anything on
\* disk: the session directory, snapshots/, the metadata file with all its
\* fields and the disk images stay as they are, so the session still exists.
C24_StopLeavesDisk ==
    [][\A c \in Callers :
          (frame[c].op = "stop" \/ frame'[c].op = "stop") => UNCHANGED disk]_vars

C24_Witness ==
    \E c \in Callers :
        /\ Returned(c, "stop") /\ frame[c].ret = "true"
        /\ LoadMetadata(frame[c].sid).exists
        /\ LoadMetadata(frame[c].sid).snapshots # <<>>
        /\ LoadMetadata(frame[c].sid).installed_packages # <<>>

\* C25: create_session(id, from_template=t) of an absent id, when the
\* user-data image t names does not exist, returns the path without raising:
\* the directory, snapshots/ and valid metadata for id are there, and no
\* user-data image.
C25_TemplateCopyOptional ==
    [][\A c \in Callers, s \in Sessions :
          (Calls(c, "create", s) /\ ~sessionDir[s] /\ frame'[c].tmpl # "none"
              /\ ~TemplateImage(frame'[c].tmpl))
              => /\ frame'[c].pc = "done" /\ frame'[c].ret = "path"
                 /\ sessionDir'[s] /\ snapDir'[s]
                 /\ meta'[s].exists /\ meta'[s].valid /\ meta'[s].session_id = s
                 /\ ~userdata'[s]]_vars

C25_Witness ==
    \E c \in Callers :
        /\ Returned(c, "create") /\ frame[c].ret = "path"
        /\ frame[c].tmpl \in Sessions \ {frame[c].sid}
        /\ ~sessionDir[frame[c].tmpl]
        /\ LoadMetadata(frame[c].sid).valid /\ ~userdata[frame[c].sid]

\* C26: the metadata create_session(id) writes loads as a valid record with
\* session_id = id and both lists empty; and whenever the metadata of the path
\* get_session returned is loaded, saved and loaded again, the second record
\* equals the first in every field and the file is what it was.
C26_MetadataRoundTrip ==
    [][\A c \in Callers :
          /\ (frame[c].pc = "idle" /\ frame'[c].op = "create"
                  /\ frame'[c].ret = "path")
                 => LET m == meta'[frame'[c].sid] IN
                    /\ m.exists /\ m.valid
                    /\ m.session_id = frame'[c].sid
                    /\ m.created_at = now /\ m.last_accessed = now'
                    /\ m.avd_name = DefaultAvd /\ m.system_image = DefaultImage
                    /\ m.installed_packages = <<>> /\ m.snapshots = <<>>
                    /\ m.notes = ""
          /\ (frame[c].pc = "round_trip_save" /\ frame'[c].pc = "done")
                 => /\ frame'[c].ret = "metadata"
                    /\ frame'[c].metadata = frame[c].metadata
                    /\ frame'[c].metadata.session_id = frame[c].sid
                    /\ meta' = meta]_vars

C26_Witness ==
    \E c \in Callers :
        /\ Returned(c, "round_trip") /\ frame[c].ret = "metadata"
        /\ frame[c].metadata.session_id = frame[c].sid
        /\ frame[c].metadata.installed_packages = <<>>
        /\ frame[c].metadata.snapshots = <<>>
        /\ frame[c].metadata = meta[frame[c].sid]

\* C27 as claimed: once two threads' start calls without a fixed port, on two
\* different sessions, have both finished, both sessions are registered, with
\* distinct ports and distinct process handles.
C27_ConcurrentStartsIndependent ==
    (\A c \in Threads :
        /\ frame[c].pc = "done" /\ frame[c].op = "start"
        /\ frame[c].cfgPort = NoPort)
        => /\ \A c \in Threads : Registered(SessionOf(c)) /\ GetSerial(SessionOf(c)) # NoPort
           /\ ports["s1"] # ports["s2"]
           /\ processes["s1"] # processes["s2"]

\* C28 as claimed: a stop, delete or status command given a session that does
\* not exist exits non-zero with a not-found message, never with success.
C28_UnknownSessionNotFound ==
    \A c \in Callers :
        (/\ frame[c].pc = "exited"
         /\ \/ frame[c].op \in {"stop", "get_session"} /\ ~sessionDir[frame[c].sid]
            \/ frame[c].op = "delete" /\ frame[c].ret = "false")
            => frame[c].exit # "0" /\ frame[c].msg = "not found"

\* C29 as claimed: restart(id) that does not fail to provision, launch or boot
\* ends with the session registered under the process its start part spawned.
C29_RestartEndsRunning ==
    \A c \in Callers :
        (Returned(c, "restart")
            /\ frame[c].ret \notin {"ProvisioningError", "MetadataError",
                                    "LaunchFailure", "BootTimeout"})
            => /\ frame[c].ret = "serial"
               /\ frame[c].proc # NoProc
               /\ processes[frame[c].sid] = frame[c].proc

\* the state of a session as the registry and the disk give it
SessionState(s) ==
    IF Registered(s) THEN "RUNNING"
    ELSE IF sessionDir[s] THEN "STOPPED"
    ELSE "NONEXISTENT"

\* the operation in progress on session s after the step
Acting(s, ops) ==
    \E c \in Callers : frame'[c].sid = s /\ frame'[c].op \in ops

\* C30: with one caller, a step changes the state of a session only from
\* NONEXISTENT to STOPPED (in create, or in the auto-create of start or
\* restart), from STOPPED to RUNNING (in start or restart), from RUNNING to
\* STOPPED (in stop, in the stop parts of start, restart and a forced delete)
\* or from STOPPED to NONEXISTENT (in delete); a session never is in the
\* registry without its directory, and a delete that returns True leaves the
\* session nonexistent.
C30_SessionStateMachine ==
    [][\A s \in Sessions :
          LET a == SessionState(s)
              b == SessionState(s)'
          IN
          /\ \/ a = b
             \/ a = "NONEXISTENT" /\ b = "STOPPED"
                   /\ Acting(s, {"create", "start", "restart"})
             \/ a = "STOPPED" /\ b = "RUNNING" /\ Acting(s, {"start", "restart"})
             \/ a = "RUNNING" /\ b = "STOPPED"
                   /\ \/ Acting(s, {"stop", "start", "restart"})
                      \/ \E c \in Callers : /\ frame'[c].sid = s
                                            /\ frame'[c].op = "delete"
                                            /\ frame'[c].force
             \/ a = "STOPPED" /\ b = "NONEXISTENT" /\ Acting(s, {"delete"})
          /\ Registered(s)' => sessionDir'[s]
          /\ \A c \in Callers :
                (frame'[c].pc = "done" /\ frame'[c].op = "delete"
                    /\ frame'[c].sid = s /\ frame'[c].ret = "true")
                    => b = "NONEXISTENT"]_vars

C30_Witness ==
    \E c \in Callers :
        /\ Returned(c, "delete") /\ frame[c].force /\ frame[c].reg
        /\ SessionState(frame[c].sid) = "NONEXISTENT"
        /\ \E s \in Sessions : SessionState(s) = "RUNNING" /\ sessionDir[s]

\* C31: stop of a registered session goes through its phases in one order:
\* the wait is entered only after the adb shutdown request was made, the forced
\* kill is entered only from a wait that ended with the process still alive, a
\* process found exited by the wait is not killed, and the registry entries go
\* only once the process has exited.
C31_StopTwoPhase ==
    [][\A c \in Callers :
          LET f == frame[c]
              g == frame'[c]
          IN
          /\ (g.pc = "stop_wait" /\ f.pc # "stop_wait")
                 => f.pc = "stop_adb" /\ g.adb # "none" /\ ~g.killed
          /\ (g.pc = "stop_kill" /\ f.pc # "stop_kill")
                 => f.pc = "stop_wait" /\ Alive(f.proc) /\ f.adb # "none"
          /\ (f.pc = "stop_wait" /\ ~Alive(f.proc) /\ g.pc # "stop_wait")
                 => g.pc = "stop_del" /\ ~g.killed /\ procs' = procs
          /\ (g.killed /\ ~f.killed) => f.pc = "stop_kill"
          /\ (g.pc = "stop_del" /\ f.pc # "stop_del")
                 => f.pc \in {"stop_wait", "stop_kill"} /\ ~Alive(f.proc)'
          /\ \A s \in Sessions :
                (Registered(s) /\ ~Registered(s)')
                    => /\ ~Alive(processes[s])
                       /\ f.pc = "stop_del" /\ f.sid = s /\ f.adb # "none"]_vars

C31_Witness ==
    \E c \in Callers :
        /\ Returned(c, "stop") /\ frame[c].ret = "true"
        /\ frame[c].adb = "timeout" /\ frame[c].killed
        /\ ~Alive(frame[c].proc) /\ ~Registered(frame[c].sid)

BootPhase == {"wfb_boot", "wfb_boot_poll", "wfb_boot_sleep"}

C33_BootWatcherTerminates ==
    \A c \in Callers :
        (frame[c].pc \in WatcherPcs)
            ~> (frame[c].pc = "done" /\ frame[c].ret \in {"serial", "BootTimeout"})

C33_Witness ==
    \E c \in Callers :
        /\ frame[c].pc = "done" /\ frame[c].ret = "BootTimeout"
        /\ frame[c].timeout = 3 /\ frame[c].elapsed >= 3
        /\ ~frame[c].booted

\* C34: when adb install exits with 0 on a session that was running at the
\* call, install_apk returns True; if no package name was resolved from the
\* APK the metadata is left as it is, and if one was resolved it is in
\* installed_packages afterwards, the other fields unchanged.
C34_ResolveFailureSwallowed ==
    [][\A c \in Callers :
          LET f == frame[c]
              g == frame'[c]
          IN
          (f.pc = "install_result" /\ g.pc # "install_result"
              /\ f.rc = "0" /\ f.running)
              => /\ g.pc = "done" /\ g.ret = "true"
                 /\ f.name = "none" => meta' = meta
                 /\ f.name # "none"
                       => /\ Has(meta'[f.sid].installed_packages, f.name)
                          /\ meta' = [meta EXCEPT ![f.sid].installed_packages =
                                          meta'[f.sid].installed_packages]]_vars

C34_Witness ==
    \E c \in Callers :
        /\ Returned(c, "install_apk") /\ frame[c].ret = "true"
        /\ frame[c].running /\ frame[c].rc = "0" /\ frame[c].name = "none"
        /\ LoadMetadata(frame[c].sid).valid

\* C35: create_base_avd issues the install command only when the image is not
\* installed and the create command only when the AVD does not exist; with
\* both there it issues neither, changes nothing and returns True; when it
\* returns True both are there, and stay, so the next call is such a call; it
\* raises the provisioning error exactly when the image or the AVD is still
\* missing after its commands.  The provisioning inside start never undoes it.
C35_ProvisioningIdempotent ==
    [][/\ \A c \in Callers :
             LET g == frame'[c] IN
             (frame[c].pc = "idle" /\ g.op = "create_base_avd")
                 => /\ g.pc = "done"
                    /\ "install" \in g.cmds => ~sdk.image
                    /\ "create" \in g.cmds => ~sdk.avd /\ sdk'.image
                    /\ (sdk.image /\ sdk.avd)
                          => g.cmds = {} /\ g.ret = "true" /\ sdk' = sdk
                    /\ g.ret = "true" <=> (sdk'.image /\ sdk'.avd)
                    /\ g.ret # "true" => g.ret = "ProvisioningError" /\ g.cmds # {}
       /\ sdk.image => sdk'.image
       /\ sdk.avd => sdk'.avd]_vars

C35_Witness ==
    \E c \in Callers :
        /\ Returned(c, "create_base_avd") /\ frame[c].ret = "true"
        /\ frame[c].cmds = {} /\ sdk.image /\ sdk.avd

\* C36: a start(id) that ends in the provisioning error or in the no-port
\* error does so in the step that failed, with no process spawned; none of its
\* steps up to there changes the registry or the processes, and none changes
\* the disk except the auto-create at its entry; the session directory is
\* there and the session unregistered when it ends.
C36_EarlyFailureLeavesNoTrace ==
    [][\A c \in Callers :
          LET f == frame[c]
              g == frame'[c]
          IN
          (f # g /\ g.op = "start"
              /\ \/ g.pc \in {"start_avd", "start_port"}
                 \/ g.pc = "done" /\ g.ret \in {"ProvisioningError", "ResourceExhausted"})
              => /\ UNCHANGED <<registry, procs>>
                 /\ g.proc = NoProc
                 /\ (f.pc # "idle" \/ sessionDir[g.sid]) => UNCHANGED disk
                 /\ f.pc = "idle" => g.created = ~sessionDir[g.sid]
                 /\ sessionDir'[g.sid] /\ processes'[g.sid] = NoProc
                 /\ g.pc = "done" => f.pc \in {"start_avd", "start_port"}]_vars

C36_Witness ==
    \E c \in Callers :
        /\ Returned(c, "start") /\ frame[c].ret = "ResourceExhausted"
        /\ frame[c].created /\ sessionDir[frame[c].sid]
        /\ ~Registered(frame[c].sid) /\ GetSerial(frame[c].sid) = NoPort
        /\ \E s \in Sessions : Registered(s)

\* the frame without the save_snapshot argument
Masked(f) == [f EXCEPT !.save = TRUE]

C38_OneLiveProcessPerSession ==
    /\ \A p \in 1..Len(procs) :
          Alive(p) => \E s \in Sessions : processes[s] = p
    /\ \A s1, s2 \in Sessions :
          (Registered(s1) /\ processes[s1] = processes[s2]) => s1 = s2
    /\ \A s \in Sessions : Registered(s) => processes[s] \in 1..Len(procs)

C38_Witness ==
    /\ Len(procs) = 2 /\ ~Alive(1) /\ Alive(2)
    /\ \E s \in Sessions :
          /\ processes[s] = 2 /\ stopped[s] = FALSE
          /\ \A o \in Sessions \ {s} : ~sessionDir[o] /\ ~Registered(o)
    /\ \E c \in Callers : Returned(c, "restart") /\ frame[c].ret = "serial"

\* C39: create_session(id, from_template=t) that creates id gives it the
\* user-data image exactly when t names one, leaves every other session's
\* directory, metadata and image, the shared base image and the AVD's
\* snapshots as they are, and writes metadata for id with empty
\* installed_packages and snapshots whatever t's metadata lists.
C39_TemplateCopiesImageOnly ==
    [][\A c \in Callers, s \in Sessions :
          (Calls(c, "create", s) /\ ~sessionDir[s])
              => LET t == frame'[c].tmpl IN
                 /\ frame'[c].ret = "path"
                 /\ userdata'[s] = (t # "none" /\ TemplateImage(t))
                 /\ \A o \in Sessions \ {s} :
                       /\ sessionDir'[o] = sessionDir[o] /\ snapDir'[o] = snapDir[o]
                       /\ meta'[o] = meta[o] /\ userdata'[o] = userdata[o]
                 /\ UNCHANGED <<baseImage, sdk, registry>>
                 /\ meta'[s].valid /\ meta'[s].session_id = s
                 /\ meta'[s].installed_packages = <<>>
                 /\ meta'[s].snapshots = <<>>]_vars

C39_Witness ==
    \E c \in Callers :
        /\ Returned(c, "create") /\ frame[c].ret = "path"
        /\ frame[c].tmpl \in Sessions \ {frame[c].sid}
        /\ userdata[frame[c].tmpl] /\ userdata[frame[c].sid]
        /\ LoadMetadata(frame[c].tmpl).installed_packages # <<>>
        /\ LoadMetadata(frame[c].tmpl).snapshots # <<>>
        /\ LoadMetadata(frame[c].sid).installed_packages = <<>>
        /\ LoadMetadata(frame[c].sid).snapshots = <<>>
====
